---- MODULE Spec2Model ----
(***************************************************************************)
(* Navigation Brain of GAI: the JSON graph store (JSONStorage), the Brain  *)
(* controller (NavigationBrain) and the Agent's tool dispatch, as state    *)
(* machines.  One action per public operation; a handler's awaits are      *)
(* steps only in the concurrency specification (SpecConc).                 *)
(***************************************************************************)
EXTENDS Integers, Sequences, FiniteSets, TLC

VARIABLES
  sg,       \* JSONStorage.graph: None, or Some(NavigationGraph)
  bg,       \* NavigationBrain.graph: "null", or "shared" (the very object JSONStorage.graph holds)
  heap,     \* the Path objects alive in memory, by reference
  disk,     \* the graph file
  shadow,   \* NavigationBrain.shadowDOM: None or Some(ShadowDOM)
  held,     \* the Path object the caller of the Brain holds (None or Some(ref))
  now,      \* the wall clock read by new Date()
  last,     \* the last operation: its name, arguments, result and what it did
  okNav,    \* the (from key, target) pairs for which navigateTo has returned true
  outcomes, \* per Path object, what the executePath calls on it returned, in order
  calls,    \* the tool calls of the LLM response the Agent is executing, each a navigateTo
  inputLog, \* the input actions dispatched for those tool calls: <<call, action index>>
  llm,      \* the LLMManager: its providers, the default provider's history, its last call
  probe     \* a call of a stateless helper (hasher, coordinate conversion): arguments and result

vars == <<sg, bg, heap, disk, shadow, held, now, last, okNav, outcomes, calls, inputLog,
          llm, probe>>

-----------------------------------------------------------------------------
(* Bounds *)

MaxPaths == 2      \* Path objects alive at once
MaxActions == 2    \* actions of a plan or path
MaxUsage == 2      \* executePath runs on one Path object
MaxVisits == 2     \* cap of Node.metadata.visitCount
MaxClock == 1      \* clock values 0..MaxClock
MaxCalls == 2      \* tool calls of one LLM response

Refs == 1..MaxPaths

-----------------------------------------------------------------------------
(* Values *)

None == <<>>
Some(x) == <<x>>

\* `${nodeId.programName}::${nodeId.stateHash}`
nodeIdToKey(nodeId) == <<nodeId.programName, "::", nodeId.stateHash>>

SpotlightId == [programName |-> "Spotlight", stateHash |-> "default"]
PendingId == [programName |-> "Unknown", stateHash |-> "pending"]

\* a Date object and the ISO-8601 string of it
DateOf(t) == [date |-> t]
toISOString(d) == [iso |-> d.date]
\* new Date(x): parses an ISO string, copies a Date
NewDate(x) == IF "iso" \in DOMAIN x THEN [date |-> x.iso] ELSE x
IsDate(x) == "date" \in DOMAIN x

\* Map.set(key, value)
MapSet(m, k, v) == [x \in (DOMAIN m) \cup {k} |-> IF x = k THEN v ELSE m[x]]
\* Map.get(key) || dflt
MapGetOr(m, k, dflt) == IF k \in DOMAIN m THEN m[k] ELSE dflt

Min(S) == CHOOSE x \in S : \A y \in S : x <= y

RECURSIVE Gcd(_, _)
Gcd(a, b) == IF b = 0 THEN a ELSE Gcd(b, a % b)

\* a rational, in lowest terms
Reduced(n, d, g) == IF g = 0 THEN <<0, 1>> ELSE <<n \div g, d \div g>>
Rat(n, d) == Reduced(n, d, Gcd(n, d))

createEmptyGraph ==
  [ nodes |-> <<>>, edges |-> <<>>, currentNodeId |-> None, version |-> "1.0.0",
    createdAt |-> DateOf(now), updatedAt |-> DateOf(now) ]

-----------------------------------------------------------------------------
(* The graph file.  save() builds the serializable graph (its own Date      *)
(* fields turned to ISO strings) and JSON.stringify writes it, turning any  *)
(* Date left in it to its ISO string (Date.prototype.toJSON).               *)

SerNode(node) ==
  [ node EXCEPT !.metadata.createdAt = toISOString(node.metadata.createdAt),
                !.metadata.lastVisitedAt = toISOString(node.metadata.lastVisitedAt) ]

SerPath(path) ==
  [ path EXCEPT !.metadata.lastUsed = toISOString(path.metadata.lastUsed) ]

JsonValue(x) == IF IsDate(x) THEN toISOString(x) ELSE x

JsonPath(p) ==
  [ p EXCEPT !.verificationHistory =
      IF p.verificationHistory = None THEN None
      ELSE Some([ i \in 1..Len(p.verificationHistory[1]) |->
                  [ p.verificationHistory[1][i] EXCEPT
                      !.timestamp = JsonValue(p.verificationHistory[1][i].timestamp) ] ]) ]

\* the document save(graph) writes; h resolves the Path references
Serialize(graph, h) ==
  [ nodes |-> [ k \in DOMAIN graph.nodes |-> SerNode(graph.nodes[k]) ],
    edges |-> [ k \in DOMAIN graph.edges |->
                [ i \in 1..Len(graph.edges[k]) |-> JsonPath(SerPath(h[graph.edges[k][i]][1])) ] ],
    currentNodeId |-> graph.currentNodeId,
    version |-> graph.version,
    createdAt |-> toISOString(graph.createdAt),
    updatedAt |-> toISOString(graph.updatedAt) ]

\* the graph load() builds from a parsed document, Paths by value
LoadNode(node) ==
  [ node EXCEPT !.metadata.createdAt = NewDate(node.metadata.createdAt),
                !.metadata.lastVisitedAt = NewDate(node.metadata.lastVisitedAt) ]

LoadPath(path) ==
  [ path EXCEPT !.metadata.lastUsed = NewDate(path.metadata.lastUsed) ]

Deserialize(doc) ==
  [ nodes |-> [ k \in DOMAIN doc.nodes |-> LoadNode(doc.nodes[k]) ],
    edges |-> [ k \in DOMAIN doc.edges |->
                [ i \in 1..Len(doc.edges[k]) |-> LoadPath(doc.edges[k][i]) ] ],
    currentNodeId |-> doc.currentNodeId,
    version |-> doc.version,
    createdAt |-> NewDate(doc.createdAt),
    updatedAt |-> NewDate(doc.updatedAt) ]

\* a graph in memory with its Path references resolved to the Paths
Resolve(graph, h) ==
  [ graph EXCEPT !.edges = [ k \in DOMAIN graph.edges |->
       [ i \in 1..Len(graph.edges[k]) |-> h[graph.edges[k][i]][1] ] ] ]

NoFile == [ state |-> "absent", doc |-> <<>> ]
\* a file that JSON.parse rejects
Garbage == [ state |-> "garbage", doc |-> <<>> ]
FileOf(doc) == [ state |-> "json", doc |-> doc ]

-----------------------------------------------------------------------------
(* JSONStorage.  An operation runs on a world w: the state it reads and     *)
(* writes, the count of save() calls made so far by the running entry       *)
(* point, the set `fail' of those calls whose file write throws, and        *)
(* whether an exception is propagating.  A value computed once and used     *)
(* several times is passed on as an operator argument.                      *)

World(failSet) ==
  [ sg |-> sg, bg |-> bg, heap |-> heap, disk |-> disk, shadow |-> shadow,
    saves |-> 0, fail |-> failSet, threw |-> FALSE,
    inputs |-> <<>>, learnCalls |-> 0, runs |-> <<>>, docs |-> <<>>, created |-> {},
    plan |-> None, sight |-> None ]

\* writeFileSync(filePath, JSON.stringify(serializable))
WriteFile(w, doc) ==
  IF w.saves \in w.fail THEN [ w EXCEPT !.threw = TRUE ]
  ELSE [ w EXCEPT !.disk = FileOf(doc), !.docs = Append(@, doc) ]

\* save(graph), graph being the storage's own graph object
Save(w) ==
  WriteFile([ w EXCEPT !.sg[1].updatedAt = DateOf(now), !.saves = @ + 1 ],
            Serialize([ w.sg[1] EXCEPT !.updatedAt = DateOf(now) ], w.heap))

\* the free references
FreeRefs(h) == { r \in Refs : h[r] = None }

\* r put in front of the references of rest = <<heap, refs>>
ConsRef(r, rest) == <<rest[1], <<r>> \o rest[2]>>

RECURSIVE Intern(_, _)
InternAt(h, paths, r) ==
  ConsRef(r, Intern([ h EXCEPT ![r] = Some(Head(paths)) ], Tail(paths)))

\* allocate one Path object per Path of a list loaded by value: <<heap, refs>>
Intern(h, paths) ==
  IF paths = <<>> THEN <<h, <<>>>> ELSE InternAt(h, paths, Min(FreeRefs(h)))

\* the edge list refs put under key k in rest = <<heap, edges>>
PutEdges(rest, k, refs) == <<rest[1], MapSet(rest[2], k, refs)>>

RECURSIVE InternEdges(_, _, _)
InternRest(one, edges, keys, k) ==
  PutEdges(InternEdges(one[1], edges, keys \ {k}), k, one[2])

InternKey(h, edges, keys, k) == InternRest(Intern(h, edges[k]), edges, keys, k)

\* the edge lists of a loaded graph, every Path a new object: <<heap, edges>>
InternEdges(h, edges, keys) ==
  IF keys = {} THEN <<h, <<>>>>
  ELSE InternKey(h, edges, keys, CHOOSE x \in keys : TRUE)

\* this.graph = the parsed graph g, its Paths the objects of e = <<heap, edges>>
LoadInterned(w, g, e) ==
  [ w EXCEPT !.sg = Some([ g EXCEPT !.edges = e[2] ]), !.heap = e[1] ]

LoadParsed(w, g) == LoadInterned(w, g, InternEdges(w.heap, g.edges, DOMAIN g.edges))

\* a load() that lets the error of JSON.parse go on to its caller
LoadRethrowing(w) ==
  IF w.sg # None THEN w
  ELSE IF w.disk.state = "absent"
       THEN Save([ w EXCEPT !.sg = Some(createEmptyGraph) ])
  ELSE IF w.disk.state = "json"
       THEN LoadParsed(w, Deserialize(w.disk.doc))
  ELSE [ w EXCEPT !.threw = TRUE ]

\* load()
Load(w) ==
  IF w.sg # None THEN w
  ELSE IF w.disk.state = "absent"
       THEN Save([ w EXCEPT !.sg = Some(createEmptyGraph) ])
  ELSE IF w.disk.state = "json"
       THEN LoadParsed(w, Deserialize(w.disk.doc))
  ELSE [ w EXCEPT !.sg = Some(createEmptyGraph) ]

\* addNode(node) once load() has returned
StorageAddNodeLoaded(w, node) ==
  IF w.threw THEN w
  ELSE Save([ w EXCEPT !.sg[1].nodes = MapSet(@, nodeIdToKey(node.id), node) ])

\* addNode(node)
StorageAddNode(w, node) == StorageAddNodeLoaded(Load(w), node)

StorageGetNodeLoaded(w, id) ==
  IF w.threw THEN <<w, None>>
  ELSE <<w, IF nodeIdToKey(id) \in DOMAIN w.sg[1].nodes
            THEN Some(w.sg[1].nodes[nodeIdToKey(id)]) ELSE None>>

\* getNode(id): <<world, None or Some(node)>>
StorageGetNode(w, id) == StorageGetNodeLoaded(Load(w), id)

\* updateNode(node)
StorageUpdateNode(w, node) == StorageAddNode(w, node)

\* the least of a set of indexes, 0 for JavaScript's -1
FirstIndex(hits) == IF hits = {} THEN 0 ELSE Min(hits)

\* paths.findIndex(p => p.id === path.id || key(p.toNodeId) === key(path.toNodeId))
FindExisting(h, paths, path) ==
  FirstIndex({ i \in 1..Len(paths) :
                 \/ h[paths[i]][1].id = path.id
                 \/ nodeIdToKey(h[paths[i]][1].toNodeId) = nodeIdToKey(path.toNodeId) })

\* paths[existingIndex] = path, or paths.push(path)
ReplaceOrPush(paths, existingIndex, r) ==
  IF existingIndex >= 1 THEN [ paths EXCEPT ![existingIndex] = r ] ELSE Append(paths, r)

StorageAddPathInto(w, r, fromKey, paths) ==
  Save([ w EXCEPT !.sg[1].edges =
           MapSet(@, fromKey, ReplaceOrPush(paths, FindExisting(w.heap, paths, w.heap[r][1]), r)) ])

StorageAddPathLoaded(w, r) ==
  IF w.threw THEN w
  ELSE StorageAddPathInto(w, r, nodeIdToKey(w.heap[r][1].fromNodeId),
         MapGetOr(w.sg[1].edges, nodeIdToKey(w.heap[r][1].fromNodeId), <<>>))

\* addPath(path), path being the object at reference r
StorageAddPath(w, r) == StorageAddPathLoaded(Load(w), r)

\* updatePath(path)
StorageUpdatePath(w, r) == StorageAddPath(w, r)

\* the keys of the edge lists that hold a Path of id pathId
HitKeys(w, pathId) ==
  { k \in DOMAIN w.sg[1].edges :
      \E i \in 1..Len(w.sg[1].edges[k]) : w.heap[w.sg[1].edges[k][i]][1].id = pathId }

\* paths.filter(p => p.id !== pathId)
WithoutId(h, paths, pathId) == SelectSeq(paths, LAMBDA r : h[r][1].id # pathId)

\* deletePath once load() has returned; first is None when no list holds the id, or
\* the first key, in the order of the Map, whose list holds it
StorageDeletePathLoaded(w, pathId, first) ==
  IF w.threw \/ first = None THEN w
  ELSE Save([ w EXCEPT !.sg[1].edges[first[1]] = WithoutId(w.heap, @, pathId) ])

\* deletePath(pathId)
StorageDeletePath(w, pathId, first) == StorageDeletePathLoaded(Load(w), pathId, first)

\* clear()
StorageClear(w) == Save([ w EXCEPT !.sg = Some(createEmptyGraph) ])

-----------------------------------------------------------------------------
(* Text, as OCR and verification compare it *)

LowerChar(c) == IF c = "D" THEN "d" ELSE c
toLowerCase(s) == [ i \in 1..Len(s) |-> LowerChar(s[i]) ]

RECURSIVE TrimStart(_)
TrimStart(s) == IF s # <<>> /\ Head(s) = " " THEN TrimStart(Tail(s)) ELSE s

RECURSIVE TrimEnd(_)
TrimEnd(s) ==
  IF s # <<>> /\ s[Len(s)] = " " THEN TrimEnd(SubSeq(s, 1, Len(s) - 1)) ELSE s

\* String.prototype.trim
trim(s) == TrimEnd(TrimStart(s))

\* String.prototype.includes
includes(s, q) ==
  \E k \in 0..(Len(s) - Len(q)) : \A j \in 1..Len(q) : s[k + j] = q[j]

-----------------------------------------------------------------------------
(* VLMAnalyzer.  A reply of the vision model is what sendWithMode returned: *)
(* it threw, or its text held no JSON object, or it held one.  Confidence   *)
(* is in tenths.                                                            *)

ConfidenceDefaultTenths == 5
LearnThresholdTenths == 3
VerifyThresholdTenths == 5

\* learnNavigationPath on a reply that did not throw
learnNavigationPath(reply) ==
  IF reply.kind = "json"
  THEN [ actions |-> reply.actions,
         confidence |-> IF reply.confidence = 0 THEN ConfidenceDefaultTenths
                        ELSE reply.confidence ]
  ELSE [ actions |-> <<>>, confidence |-> 0 ]

\* verifyScreenState on a reply that did not throw
verifyScreenState(reply) ==
  IF reply.kind = "json"
  THEN [ match |-> reply.match, confidence |-> reply.confidence, reason |-> reply.reason ]
  ELSE [ match |-> FALSE, confidence |-> 0, reason |-> "Failed to verify" ]

UnknownName == <<"U", "n", "k", "n", "o", "w", "n">>
IsQuote(c) == c \in { "'", "\"" }
Unquoted(s) == SelectSeq(s, LAMBDA c : ~IsQuote(c))

\* the program name of a reply: its text trimmed, then stripped of its quotes
ProgramNameOf(content, name) == IF name = <<>> THEN UnknownName ELSE name

\* extractProgramName on a reply that did not throw
extractProgramName(reply) == ProgramNameOf(reply.content, Unquoted(trim(reply.content)))

\* identifyUIElements on a reply that did not throw: the elements of its JSON object,
\* or else those of the OCR, or else none
identifyUIElements(reply, ocrData) ==
  IF reply.kind = "json" THEN reply.elements
  ELSE IF ocrData # None
  THEN [ i \in 1..Len(ocrData[1]) |->
         [ type |-> "text", text |-> Some(ocrData[1][i].text), position |-> ocrData[1][i].bbox ] ]
  ELSE <<>>

-----------------------------------------------------------------------------
(* StateHasher.  A UI element is [type, text, position]: text is None or    *)
(* Some(characters), position is None or Some([x, y, width, height]).  The  *)
(* SHA-256 digest of the representation string is taken to be injective:    *)
(* the hash is modelled by the representation it digests.                   *)

QuantumPx == 10

\* Math.floor(v / 10) * 10
Quantized(v) == (v \div QuantumPx) * QuantumPx

\* the element as hashElements normalizes it
NormalizedElement(element) ==
  [ type |-> element.type,
    text |-> IF element.text = None THEN <<>> ELSE trim(toLowerCase(element.text[1])),
    position |-> IF element.position = None THEN None
                 ELSE Some([ x |-> Quantized(element.position[1].x),
                             y |-> Quantized(element.position[1].y),
                             width |-> Quantized(element.position[1].width),
                             height |-> Quantized(element.position[1].height) ]) ]

\* the order of localeCompare on the characters and on the element types of the model
CharRank(c) ==
  CASE c = " " -> 0 [] c = "a" -> 1 [] c = "d" -> 2 [] c = "x" -> 3 [] OTHER -> 4

TypeRank(t) ==
  CASE t = "button" -> 0 [] t = "image" -> 1 [] t = "input" -> 2 [] t = "link" -> 3
    [] t = "menu" -> 4 [] t = "other" -> 5 [] OTHER -> 6

RECURSIVE localeCompare(_, _)
\* a.localeCompare(b) on texts: negative, 0 or positive
localeCompare(a, b) ==
  IF a = <<>> /\ b = <<>> THEN 0
  ELSE IF a = <<>> THEN -1
  ELSE IF b = <<>> THEN 1
  ELSE IF CharRank(Head(a)) # CharRank(Head(b)) THEN CharRank(Head(a)) - CharRank(Head(b))
  ELSE localeCompare(Tail(a), Tail(b))

\* the comparator of the sort: by type, then text, then position
CompareElements(a, b) ==
  IF a.type # b.type THEN TypeRank(a.type) - TypeRank(b.type)
  ELSE IF a.text # b.text THEN localeCompare(a.text, b.text)
  ELSE IF a.position = None /\ b.position = None THEN 0
  ELSE IF a.position = None THEN -1
  ELSE IF b.position = None THEN 1
  ELSE IF a.position[1].x - b.position[1].x # 0 THEN a.position[1].x - b.position[1].x
  ELSE a.position[1].y - b.position[1].y

RECURSIVE InsertSorted(_, _)
\* e put into a sorted list, after the entries that do not compare greater than it
InsertSorted(sorted, e) ==
  IF sorted = <<>> THEN <<e>>
  ELSE IF CompareElements(e, Head(sorted)) < 0 THEN <<e>> \o sorted
  ELSE <<Head(sorted)>> \o InsertSorted(Tail(sorted), e)

RECURSIVE SortElements(_)
\* Array.prototype.sort with the comparator: a stable sort
SortElements(elements) ==
  IF elements = <<>> THEN <<>>
  ELSE InsertSorted(SortElements(SubSeq(elements, 1, Len(elements) - 1)),
                    elements[Len(elements)])

Distance(a, b) == IF a >= b THEN a - b ELSE b - a

\* b is the element a with every component of its bounding box moved by less than px
MovedLessThan(a, b, px) ==
  /\ a.type = b.type /\ a.text = b.text
  /\ (a.position = None) = (b.position = None)
  /\ a.position # None =>
       /\ Distance(a.position[1].x, b.position[1].x) < px
       /\ Distance(a.position[1].y, b.position[1].y) < px
       /\ Distance(a.position[1].width, b.position[1].width) < px
       /\ Distance(a.position[1].height, b.position[1].height) < px

\* StateHasher.hashElements(elements)
hashElements(elements) ==
  SortElements([ i \in 1..Len(elements) |-> NormalizedElement(elements[i]) ])

-----------------------------------------------------------------------------
(* NavigationBrain *)

\* this.graph, when the Brain holds one
BrainGraph(w) == w.sg[1]

\* updateShadowDOM(nodeId): percept.ok is FALSE when the capture or the VLM call threw
updateShadowDOM(w, nodeId, percept) ==
  IF percept.ok
  THEN [ w EXCEPT !.shadow = Some([ nodeId |-> nodeId, capturedAt |-> DateOf(now),
                                    ocrResult |-> percept.ocr ]) ]
  ELSE [ w EXCEPT !.shadow = None ]

\* identifyCurrentNode(): <<world, None or Some(nodeId)>>; seen.id is None when the
\* capture or a VLM call threw
identifyCurrentNode(w, seen) ==
  IF seen.id = None THEN <<w, None>>
  ELSE <<updateShadowDOM(w, seen.id[1], seen.percept), seen.id>>

\* a Spotlight node that counts its creation as a visit
SpotlightNodeVisited ==
  [ id |-> SpotlightId,
    metadata |-> [ title |-> Some("macOS Spotlight Search"), createdAt |-> DateOf(now),
                   lastVisitedAt |-> DateOf(now), visitCount |-> 1 ],
    childrenIds |-> <<>> ]

\* the default Spotlight node
SpotlightNode ==
  [ id |-> SpotlightId,
    metadata |-> [ title |-> Some("macOS Spotlight Search"), createdAt |-> DateOf(now),
                   lastVisitedAt |-> DateOf(now), visitCount |-> 0 ],
    childrenIds |-> <<>> ]

initializeSpotlightNodeGot(got) ==
  IF got[1].threw \/ got[2] # None THEN got[1]
  ELSE StorageAddNode(got[1], SpotlightNode)

\* initializeSpotlightNode(); an exception is rethrown
initializeSpotlightNode(w) == initializeSpotlightNodeGot(StorageGetNode(w, SpotlightId))

\* a try block without its catch clause: the exception goes on to the caller
Uncaught(w, caught, returned) == <<w, returned>>

\* what a try block hands back when w holds a propagating exception: <<world, caught>>
Caught(w, caught, returned) ==
  IF w.threw THEN <<[ w EXCEPT !.threw = FALSE ], caught>> ELSE <<w, returned>>

\* initialize() once this.graph is set
initializeLoaded(w) ==
  IF w.threw THEN Caught(w, FALSE, FALSE)
  ELSE Caught(initializeSpotlightNode([ w EXCEPT !.bg = "shared" ]), FALSE, TRUE)

\* initialize(): <<world, returned value>>
initialize(w) == initializeLoaded(Load(w))

NewNode(nodeId) ==
  [ id |-> nodeId,
    metadata |-> [ title |-> None, createdAt |-> DateOf(now),
                   lastVisitedAt |-> DateOf(now), visitCount |-> 1 ],
    childrenIds |-> <<>> ]

\* existing.metadata.lastVisitedAt = new Date(); existing.metadata.visitCount++
Visited(node) ==
  [ node EXCEPT !.metadata.lastVisitedAt = DateOf(now), !.metadata.visitCount = @ + 1 ]

\* addNode: the node is stored, this.graph.currentNodeId = nodeId
addNodeStored(w, nodeId, node) ==
  IF w.threw THEN Caught(w, None, None)
  ELSE <<[ w EXCEPT !.sg[1].nodes = MapSet(@, nodeIdToKey(nodeId), node),
                    !.sg[1].currentNodeId = Some(nodeId) ],
         Some(node)>>

\* addNode of a node the graph has: existing is the object the map holds, which
\* changes there at once
addNodeExisting(w, nodeId, existing) ==
  addNodeStored(StorageUpdateNode([ w EXCEPT !.sg[1].nodes[nodeIdToKey(nodeId)] = existing ],
                                  existing),
                nodeId, existing)

addNodeGot(got, nodeId) ==
  IF got[2] # None THEN addNodeExisting(got[1], nodeId, Visited(got[2][1]))
  ELSE addNodeStored(StorageAddNode(got[1], NewNode(nodeId)), nodeId, NewNode(nodeId))

\* addNode(nodeId): <<world, None or Some(node)>>
addNode(w, nodeId) ==
  IF w.bg = "null" THEN <<w, None>>
  ELSE addNodeGot(StorageGetNode(w, nodeId), nodeId)

\* the ids of the Paths in memory and in the graph file
UsedIds(w) ==
  { w.heap[r][1].id : r \in { x \in Refs : w.heap[x] # None } }
  \cup (IF w.disk.state = "json"
        THEN UNION { { w.disk.doc.edges[k][i].id : i \in 1..Len(w.disk.doc.edges[k]) } :
                     k \in DOMAIN w.disk.doc.edges }
        ELSE {})

\* randomUUID(): an id no Path has
randomUUID(w) == Min({ n \in 1..(Cardinality(UsedIds(w)) + 1) : n \notin UsedIds(w) })

\* the Path learnPath builds from an accepted plan
LearnedPath(w, fromNodeId, actions) ==
  [ id |-> randomUUID(w),
    fromNodeId |-> fromNodeId,
    toNodeId |-> PendingId,
    actions |-> [ i \in 1..Len(actions) |->
                  [ data |-> actions[i].data, retryOnFailure |-> TRUE ] ],
    validation |-> [ expectedElements |-> <<>>, expectedText |-> None ],
    verificationHistory |-> None,
    metadata |-> [ successRate |-> <<0, 1>>, lastUsed |-> DateOf(now), usageCount |-> 0,
                   learnedBy |-> "vlm" ] ]

\* learnPath that accepts a plan of any confidence
learnPathPlannedAnyConfidence(w, plan, r) ==
  IF Len(plan.actions) = 0 THEN <<w, None>>
  ELSE <<[ w EXCEPT !.heap[r] = Some(LearnedPath(w, BrainGraph(w).currentNodeId[1], plan.actions)),
                    !.created = @ \cup {r} ],
         Some(r)>>

\* learnPath: the plan of the vision model is back
learnPathPlanned(w, plan, r) ==
  IF Len(plan.actions) = 0 \/ plan.confidence < LearnThresholdTenths THEN <<w, None>>
  ELSE <<[ w EXCEPT !.heap[r] = Some(LearnedPath(w, BrainGraph(w).currentNodeId[1], plan.actions)),
                    !.created = @ \cup {r} ],
         Some(r)>>

\* what the vision model's reply reported: None, or the plan's length, its confidence
\* and the types its entries name
Reported(reply) ==
  IF reply.kind = "json"
  THEN Some([ actions |-> Len(reply.actions), confidence |-> reply.confidence,
              types |-> [ i \in 1..Len(reply.actions) |-> reply.actions[i].type ] ])
  ELSE None

\* a learnPath that asks the vision model before it looks for the current node
learnPathAskingFirst(w, reply) ==
  IF w.bg = "null" \/ reply.kind = "captureThrow" THEN <<w, None>>
  ELSE IF reply.kind = "throw" \/ BrainGraph(w).currentNodeId = None
  THEN <<[ w EXCEPT !.learnCalls = @ + 1 ], None>>
  ELSE learnPathPlanned([ w EXCEPT !.learnCalls = @ + 1, !.plan = Reported(reply) ],
                        learnNavigationPath(reply),
                        Min(FreeRefs(w.heap)))

\* learnPath(targetDescription): <<world, None or Some(reference of the new Path)>>.
\* reply.kind is "captureThrow" when the capture threw, "throw" when the VLM call did
learnPath(w, reply) ==
  IF w.bg = "null" \/ BrainGraph(w).currentNodeId = None THEN <<w, None>>
  ELSE IF reply.kind = "captureThrow" THEN <<w, None>>
  ELSE IF reply.kind = "throw" THEN <<[ w EXCEPT !.learnCalls = @ + 1 ], None>>
  ELSE learnPathPlanned([ w EXCEPT !.learnCalls = @ + 1, !.plan = Reported(reply) ],
                        learnNavigationPath(reply),
                        Min(FreeRefs(w.heap)))

\* executeAction(action): envOk is FALSE when the dispatch threw or found no target.
\* typeText, pressEnter and pressKey are async and called without await: what they
\* throw rejects a promise nobody holds and never reaches the catch clause.
executeAction(action, envOk) ==
  CASE action.data.type = "click" -> envOk
    [] action.data.type = "type" -> TRUE
    [] action.data.type = "hotkey" -> TRUE
    [] action.data.type = "wait" -> TRUE
    [] action.data.type = "scroll" -> envOk
    [] OTHER -> FALSE

\* a verification that passes whatever the ShadowDOM is
verifyActionResultBlind(w, path, actionIndex, vlmReply) ==
  [ timestamp |-> DateOf(now), success |-> TRUE, actionIndex |-> actionIndex,
    failureReason |-> None ]

\* verifyActionResult(path, actionIndex): the PathVerification
verifyActionResult(w, path, actionIndex, vlmReply) ==
  LET verification == [ timestamp |-> DateOf(now), success |-> FALSE,
                        actionIndex |-> actionIndex, failureReason |-> None ]
      texts == path.validation.expectedText
      ocr == w.shadow[1].ocrResult
      hasExpectedText ==
        \E q \in { texts[1][i] : i \in 1..Len(texts[1]) } :
          \E el \in { ocr[1][i] : i \in 1..Len(ocr[1]) } :
            includes(toLowerCase(el), toLowerCase(q))
      vlmResult == verifyScreenState(vlmReply)
  IN
  IF w.shadow = None
  THEN [ verification EXCEPT !.failureReason = Some(<<"ShadowDOM not available for verification">>) ]
  ELSE IF ocr # None /\ texts # None /\ Len(texts[1]) > 0 /\ ~hasExpectedText
  THEN [ verification EXCEPT !.failureReason = Some(<<"Expected text not found: ", texts[1]>>) ]
  ELSE IF Len(path.validation.expectedElements) > 0 /\ vlmReply.kind = "throw"
  THEN [ verification EXCEPT !.failureReason = Some(<<"Verification error: ">>) ]
  ELSE IF Len(path.validation.expectedElements) > 0
          /\ (~vlmResult.match \/ vlmResult.confidence < VerifyThresholdTenths)
  THEN [ verification EXCEPT !.failureReason = Some(<<vlmResult.reason>>) ]
  ELSE [ verification EXCEPT !.success = TRUE ]

\* path.verificationHistory.push(v) on the Path object at r
PushVerification(w, r, v) ==
  [ w EXCEPT !.heap[r][1].verificationHistory =
      Some(IF @ = None THEN <<v>> ELSE Append(@[1], v)) ]

ActionFailed(i) ==
  [ timestamp |-> DateOf(now), success |-> FALSE, actionIndex |-> i,
    failureReason |-> Some(<<"Action execution failed">>) ]

\* the dispatches of a run: the action's index, what executeAction returned, and
\* whether the dispatch went through (FALSE: it threw or found no target)
Dispatched(w, i, ok, envOk) == [ w EXCEPT !.inputs = Append(@, <<i, ok, envOk>>) ]

RECURSIVE RunActions(_, _, _, _)

\* a loop that goes on after a retry that failed
RunRetriedRegardless(w, r, i, script, retrySuccess) ==
  RunActions(w, r, i + 1, script)

\* the retry of action i has been dispatched
RunRetried(w, r, i, script, retrySuccess) ==
  IF retrySuccess THEN RunActions(w, r, i + 1, script)
  ELSE [ w |-> w, success |-> FALSE ]

\* a loop that retries a failed action whatever its retryOnFailure says
RunFailedAlwaysRetried(w, r, i, script, action) ==
  RunRetried(Dispatched(w, i, executeAction(action, script[i + 1].retry), script[i + 1].retry), r, i, script,
             executeAction(action, script[i + 1].retry))

\* action i failed and the failure is in the history
RunFailed(w, r, i, script, action) ==
  IF action.retryOnFailure
  THEN RunRetried(Dispatched(w, i, executeAction(action, script[i + 1].retry), script[i + 1].retry), r, i, script,
                  executeAction(action, script[i + 1].retry))
  ELSE [ w |-> w, success |-> FALSE ]

\* the verification after action i is made and not recorded
RunVerifiedUnrecorded(w, r, i, script, verification) ==
  IF ~verification.success THEN [ w |-> w, success |-> FALSE ]
  ELSE RunActions(w, r, i + 1, script)

\* the verification after action i is made
RunVerified(w, r, i, script, verification) ==
  IF ~verification.success
  THEN [ w |-> PushVerification(w, r, verification), success |-> FALSE ]
  ELSE RunActions(PushVerification(w, r, verification), r, i + 1, script)

\* the ShadowDOM after action i is rebuilt
RunShown(w, r, i, script) ==
  RunVerified(w, r, i, script, verifyActionResult(w, w.heap[r][1], i, script[i + 1].vlm))

\* this.graph?.currentNodeId || path.toNodeId
CurrentOr(w, nodeId) ==
  IF w.bg # "null" /\ BrainGraph(w).currentNodeId # None
  THEN BrainGraph(w).currentNodeId[1] ELSE nodeId

\* action i has been dispatched
RunDispatched(w, r, i, script, action, actionSuccess) ==
  IF ~actionSuccess
  THEN RunFailed(PushVerification(Dispatched(w, i, FALSE, script[i + 1].first), r, ActionFailed(i)),
                 r, i, script, action)
  ELSE RunShown(updateShadowDOM(Dispatched(w, i, TRUE, script[i + 1].first),
                                CurrentOr(w, w.heap[r][1].toNodeId),
                                script[i + 1].percept),
                r, i, script)

\* the for loop of executePath from index i (0-based): [w, success]
RunActions(w, r, i, script) ==
  IF i >= Len(w.heap[r][1].actions) THEN [ w |-> w, success |-> TRUE ]
  ELSE RunDispatched(w, r, i, script, w.heap[r][1].actions[i + 1],
                     executeAction(w.heap[r][1].actions[i + 1], script[i + 1].first))

\* a successRate that gives no credit for a success
NextSuccessRateNoCredit(successRate, usageCount, outcome) ==
  Rat(successRate[1] * (usageCount - 1), successRate[2] * usageCount)

\* the new successRate: (successRate * (usageCount - 1) + outcome) / usageCount
NextSuccessRate(successRate, usageCount, outcome) ==
  Rat(successRate[1] * (usageCount - 1) + outcome * successRate[2],
      successRate[2] * usageCount)

\* if (!path.verificationHistory) path.verificationHistory = []
InitHistory(w, r) ==
  IF w.heap[r][1].verificationHistory = None
  THEN [ w EXCEPT !.heap[r][1].verificationHistory = Some(<<>>) ] ELSE w

\* usageCount++, lastUsed, successRate
UsedMetadata(meta, success) ==
  [ meta EXCEPT !.usageCount = @ + 1, !.lastUsed = DateOf(now),
                !.successRate = NextSuccessRate(@, meta.usageCount + 1,
                                                IF success THEN 1 ELSE 0) ]

\* executePath: updatePath has returned or thrown
executePathSaved(w, r, success) ==
  <<[ w EXCEPT !.threw = FALSE, !.runs = Append(@, <<r, success>>) ], success>>

\* executePath: the loop has ended
executePathRan(run, r) ==
  executePathSaved(
    StorageUpdatePath([ run.w EXCEPT !.heap[r][1].metadata = UsedMetadata(@, run.success) ], r),
    r, run.success)

\* executePath(path) on the Path object at r: <<world, returned value>>
executePath(w, r, script) == executePathRan(RunActions(InitHistory(w, r), r, 0, script), r)

\* navigateTo: addNode(newNodeId) has returned
navigateToAdded(added) == <<added[1], added[2] # None>>

\* navigateTo: storage.addPath(path) has returned or thrown
navigateToStored(w, newNodeId) ==
  IF w.threw THEN Caught(w, FALSE, FALSE)
  ELSE navigateToAdded(addNode(w, newNodeId))

\* navigateTo that stores the path as it was learned
navigateToIdentifiedKept(ident, r) ==
  IF ident[2] = None THEN <<ident[1], FALSE>>
  ELSE navigateToStored(StorageAddPath(ident[1], r), ident[2][1])

\* navigateTo: identifyCurrentNode has returned
navigateToIdentified(ident, r) ==
  IF ident[2] = None THEN <<ident[1], FALSE>>
  ELSE navigateToStored(StorageAddPath([ ident[1] EXCEPT !.heap[r][1].toNodeId = ident[2][1] ], r),
                        ident[2][1])

\* navigateTo: executePath has returned
navigateToRan(ran, r, seen) ==
  IF ~ran[2] THEN <<ran[1], FALSE>>
  ELSE navigateToIdentified(identifyCurrentNode(ran[1], seen), r)

\* navigateTo: learnPath has returned
navigateToLearned(learned, script, seen) ==
  IF learned[2] = None THEN <<learned[1], FALSE>>
  ELSE navigateToRan(executePath(learned[1], learned[2][1], script), learned[2][1], seen)

\* navigateTo(targetDescription): <<world, returned value>>
navigateTo(w, reply, script, seen) ==
  IF w.bg = "null" THEN <<w, FALSE>>
  ELSE navigateToLearned(learnPath(w, reply), script, seen)

-----------------------------------------------------------------------------
(* The environment: what the screen, the OCR, the vision model and the file *)
(* system answer.  A specification fixes, in a record env, the answers it   *)
(* lets the environment give.                                               *)

PerceptFailed == [ ok |-> FALSE, ocr |-> None ]
\* a ShadowDOM rebuild: failed, done without OCR, done with the OCR elements' texts
Percepts(ocrs) == { PerceptFailed } \cup { [ ok |-> TRUE, ocr |-> o ] : o \in ocrs }

NoReply == [ kind |-> "none", match |-> FALSE, confidence |-> 0, reason |-> "" ]

\* what the environment answers to one action of a path: the first dispatch, the
\* retry, the ShadowDOM rebuild, the verification reply.  A keyboard action whose
\* controller throws is followed by the rebuild and the verification all the same.
StepEnvs(action, percepts, vlms) ==
  LET settled == { [ first |-> TRUE, retry |-> TRUE, percept |-> p, vlm |-> v ] :
                   p \in percepts, v \in vlms }
      failed == { [ first |-> FALSE, retry |-> b, percept |-> PerceptFailed, vlm |-> NoReply ] :
                  b \in BOOLEAN }
      rejected == { [ first |-> FALSE, retry |-> TRUE, percept |-> p, vlm |-> v ] :
                    p \in percepts, v \in vlms }
  IN  IF action.data.type \in {"click", "scroll"} THEN settled \cup failed
      ELSE IF action.data.type \in {"type", "hotkey"} THEN settled \cup rejected
      ELSE IF action.data.type = "wait" THEN settled
      ELSE { [ first |-> FALSE, retry |-> FALSE, percept |-> PerceptFailed, vlm |-> NoReply ] }

RECURSIVE Scripts(_, _, _)
Scripts(actions, percepts, vlms) ==
  IF actions = <<>> THEN { <<>> }
  ELSE { <<e>> \o rest : e \in StepEnvs(Head(actions), percepts, vlms),
                         rest \in Scripts(Tail(actions), percepts, vlms) }

RECURSIVE SeqsUpTo(_, _)
SeqsUpTo(S, n) ==
  IF n = 0 THEN { <<>> }
  ELSE SeqsUpTo(S, n - 1) \cup
       { Append(q, x) : q \in { y \in SeqsUpTo(S, n - 1) : Len(y) = n - 1 }, x \in S }

\* an entry {type, data, description} of a VLM plan
PlanEntry(t) == [ type |-> t, data |-> [ type |-> t ] ]

\* the value of a property an object does not have
Undefined == "undefined"

\* an entry as the prompt's example reply writes it: the type beside the data, the
\* data ({"text": "Settings"}) without a type of its own
ExampleEntry(t) == [ type |-> t, data |-> [ type |-> Undefined ] ]

\* the replies to the learnNavigationPath prompt, the plans being given
LearnReplies(plans) ==
  { [ kind |-> k, actions |-> <<>>, confidence |-> 0 ] : k \in {"captureThrow", "throw", "noJson"} }
  \cup { [ kind |-> "json", actions |-> a, confidence |-> c ] : a \in plans, c \in {0, 2, 8} }

NotSeen == [ id |-> None, percept |-> PerceptFailed ]
\* what identifyCurrentNode sees
Seens(ids, percepts) ==
  { NotSeen } \cup { [ id |-> Some(n), percept |-> p ] : n \in ids, p \in percepts }

-----------------------------------------------------------------------------
(* The LLM orchestrator (LLMManager) and its providers.  Texts are          *)
(* sequences of characters.  The environment answers a provider's API call  *)
(* with a reply (its text blocks and its tool uses) or with a thrown value. *)

MaxHistory == 2    \* entries of the default provider's history

RateLimit == <<"r", "a", "t", "e", " ", "l", "i", "m", "i", "t">>
Providers == { "anthropic", "openai", "google", "ollama" }
Modes == { "default", "fast", "vision" }

RECURSIVE Join(_)
\* the text blocks of a reply, concatenated
Join(texts) == IF texts = <<>> THEN <<>> ELSE Head(texts) \o Join(Tail(texts))

\* a thrown Error with its message
ErrorOf(message) == [ kind |-> "error", isError |-> TRUE, message |-> message ]
\* a thrown value that is not an Error
Thrown(message) == [ kind |-> "error", isError |-> FALSE, message |-> message ]
\* LLMResponse {content, toolCalls}; toolCalls is their number, 0 for undefined
Response(content, toolCalls) ==
  [ kind |-> "response", content |-> content, toolCalls |-> toolCalls ]

TextContentMissing == ErrorOf(<<"T", "e", "x", "t", " ", "c", "o", "n", "t", "e", "n", "t", " ", "m", "i", "s", "s", "i", "n", "g", " ", "i", "n", " ", "r", "e", "s", "p", "o", "n", "s", "e">>)
TextPartMissing == ErrorOf(<<"T", "e", "x", "t", " ", "p", "a", "r", "t", " ", "m", "i", "s", "s", "i", "n", "g", " ", "i", "n", " ", "m", "e", "s", "s", "a", "g", "e">>)
NoLastMessage == ErrorOf(<<"C", "a", "n", "n", "o", "t", " ", "r", "e", "a", "d", " ", "p", "r", "o", "p", "e", "r", "t", "i", "e", "s", " ", "o", "f", " ", "u", "n", "d", "e", "f", "i", "n", "e", "d">>)

\* what a provider call left: what it returned or threw, the history, the API calls made
Settled(out, history, api) == [ out |-> out, history |-> history, api |-> api ]

AssistantRole(provider) == IF provider = "google" THEN "model" ELSE "assistant"

providerAddAssistantMessage(provider, history, content) ==
  Append(history, [ role |-> AssistantRole(provider), content |-> content ])

providerAddUserMessage(history, content) ==
  Append(history, [ role |-> "user", content |-> content ])

\* the reply of the API as the provider reads it
ReadReply(provider, reply) ==
  IF provider = "anthropic" THEN Response(Join(reply.texts), reply.toolUses)
  ELSE IF provider = "openai"
  THEN IF \E i \in 1..Len(reply.texts) : reply.texts[i] = <<>>
       THEN TextContentMissing
       ELSE Response(Join(reply.texts), reply.toolUses)
  ELSE Response(Join(reply.texts), 0)

\* send() adds the response to the history
AppendsResponse(provider, response) ==
  IF provider = "anthropic" THEN response.content # <<>> \/ response.toolCalls > 0
  ELSE IF provider = "openai" THEN response.content # <<>>
  ELSE TRUE

providerSendRead(provider, history, read) ==
  IF read.kind = "error" THEN Settled(read, history, 1)
  ELSE IF AppendsResponse(provider, read)
  THEN Settled(read, providerAddAssistantMessage(provider, history, read.content), 1)
  ELSE Settled(read, history, 1)

\* GoogleLLM.send reads its prompt from the last entry of the history
GooglePrompt(history) ==
  IF history = <<>> THEN NoLastMessage
  ELSE IF history[Len(history)].content = <<>> THEN TextPartMissing
  ELSE Response(history[Len(history)].content, 0)

\* provider.send(tools), the API answering outcome
providerSend(provider, history, outcome) ==
  IF provider = "google" /\ GooglePrompt(history).kind = "error"
  THEN Settled(GooglePrompt(history), history, 0)
  ELSE IF outcome.kind = "error" THEN Settled(outcome, history, 1)
  ELSE providerSendRead(provider, history, ReadReply(provider, outcome))

\* a sendOnce that keeps the answer in the history, as send does
providerSendOnceKept(provider, history, outcome) == providerSend(provider, history, outcome)

\* provider.sendOnce(messages, tools), the messages ending with a text
providerSendOnce(provider, history, outcome) ==
  IF outcome.kind = "error" THEN Settled(outcome, history, 1)
  ELSE Settled(ReadReply(provider, outcome), history, 1)

\* error instanceof Error ? error.message : ''
MessageOf(error) == IF error.isError THEN error.message ELSE <<>>

\* no call of the manager yet
NoCall == [ op |-> "none", mode |-> "", script |-> <<>>, out |-> Thrown(<<>>), api |-> 0,
            slept |-> <<>>, before |-> <<>> ]

\* a manager: the provider of each mode, the default provider's history, the last call
Manager(provider, multi) ==
  [ made |-> TRUE, default |-> provider,
    fast |-> IF multi THEN Some(provider) ELSE None,
    vision |-> IF multi THEN Some(provider) ELSE None,
    history |-> <<>>, last |-> [ NoCall EXCEPT !.op = "new" ] ]

getLLMForMode(m, mode) ==
  IF mode = "fast" /\ m.fast # None THEN m.fast[1]
  ELSE IF mode = "vision" /\ m.vision # None THEN m.vision[1]
  ELSE m.default

\* what a call of the manager left: as Settled, and the sleeps it made
Direct(r) == [ out |-> r.out, history |-> r.history, api |-> r.api, slept |-> <<>> ]
Retried(first, second) ==
  [ out |-> second.out, history |-> second.history, api |-> first.api + second.api,
    slept |-> <<1000>> ]

IsRateLimited(r) == r.out.kind = "error" /\ includes(MessageOf(r.out), RateLimit)

sendCaught(m, first, second) ==
  IF IsRateLimited(first)
  THEN Retried(first, providerSend(m.default, first.history, second))
  ELSE Direct(first)

\* LLMManager.send(tools)
managerSend(m, first, second) ==
  sendCaught(m, providerSend(m.default, m.history, first), second)

sendWithModeCaught(m, mode, first, second) ==
  IF IsRateLimited(first)
  THEN Retried(first, providerSendOnce(getLLMForMode(m, mode), first.history, second))
  ELSE Direct(first)

\* LLMManager.sendWithMode(mode, messages, tools)
sendWithMode(m, mode, first, second) ==
  IF mode = "default" THEN Direct(providerSendOnce(m.default, m.history, first))
  ELSE sendWithModeCaught(m, mode,
                          providerSendOnce(getLLMForMode(m, mode), m.history, first), second)

\* the API's answers
Replies ==
  { [ kind |-> "reply", texts |-> t, toolUses |-> n ] :
    t \in { <<>>, << <<"h">> >>, << <<>> >>, << <<"h">>, <<"i">> >> }, n \in 0..1 }
Failures ==
  { ErrorOf(RateLimit), ErrorOf(<<"R", "a", "t", "e", " ", "l", "i", "m", "i", "t", " ", "e", "x", "c", "e", "e", "d", "e", "d">>), ErrorOf(<<"4", "2", "9">>), Thrown(RateLimit) }
Outcomes == Replies \cup Failures

NoManager == [ made |-> FALSE, default |-> "", fast |-> None, vision |-> None,
               history |-> <<>>, last |-> NoCall ]

\* no stateless helper has been called
NoProbe == [ op |-> "none" ]

\* what identifyCurrentNode makes of a sight: the capture, the OCR (None when it is
\* unsupported or throws), the vision model's replies for the program name and for
\* the UI elements
Sighted(sight, percept) ==
  IF ~sight.capture \/ sight.name.kind = "throw" \/ sight.ui.kind = "throw" THEN NotSeen
  ELSE [ id |-> Some([ programName |-> extractProgramName(sight.name),
                       stateHash |-> hashElements(identifyUIElements(sight.ui, sight.ocr)) ]),
         percept |-> percept ]

\* identifyCurrentNode() before a sight
identifyCurrentNodeOn(w, sight, percept) ==
  identifyCurrentNode([ w EXCEPT !.sight = Some(sight) ], Sighted(sight, percept))

-----------------------------------------------------------------------------
(* Coordinates (CoordinateConverter, MouseController).  A component of a    *)
(* bounding box is a multiple of 1 / Parts, held as its numerator; a screen  *)
(* size and a click are whole pixels.                                        *)

Parts == 2         \* a coordinate is a multiple of 1 / Parts

\* Math.round(a / b), b > 0: halves go up
RoundRat(a, b) == (2 * a + b) \div (2 * b)

\* getScreenSize(): the cached size, asked of the system when there is none
getScreenSize(cached, screen) == IF cached = None THEN screen ELSE cached[1]

\* isNormalized(bbox): every component in [0, 1]
isNormalized(bbox) ==
  /\ bbox.x >= 0 /\ bbox.x <= Parts
  /\ bbox.y >= 0 /\ bbox.y <= Parts
  /\ bbox.width >= 0 /\ bbox.width <= Parts
  /\ bbox.height >= 0 /\ bbox.height <= Parts

\* normalizedToPixel(bbox): whole pixels, held over Parts like every bounding box
normalizedToPixel(bbox, screen) ==
  [ x |-> RoundRat(bbox.x * screen.width, Parts) * Parts,
    y |-> RoundRat(bbox.y * screen.height, Parts) * Parts,
    width |-> RoundRat(bbox.width * screen.width, Parts) * Parts,
    height |-> RoundRat(bbox.height * screen.height, Parts) * Parts ]

\* ensurePixelCoordinates(bbox)
ensurePixelCoordinates(bbox, screen) ==
  IF isNormalized(bbox) THEN normalizedToPixel(bbox, screen) ELSE bbox

\* the point clickBBoxCenter hands to clickAt: Math.round(x + width / 2), and so for y
CenterOf(pixelBBox) ==
  [ x |-> RoundRat(2 * pixelBBox.x + pixelBBox.width, 2 * Parts),
    y |-> RoundRat(2 * pixelBBox.y + pixelBBox.height, 2 * Parts) ]

\* MouseController.clickBBoxCenter(bbox): the point clicked
clickBBoxCenter(bbox, screen) == CenterOf(ensurePixelCoordinates(bbox, screen))

-----------------------------------------------------------------------------
(* The state machine *)

NoOp == [ op |-> "none", target |-> "", node |-> None, ret |-> FALSE, from |-> None,
          known |-> FALSE, fresh |-> FALSE, loaded |-> FALSE,
          learnCalls |-> 0, inputs |-> <<>>, wrotePending |-> FALSE, wroteAll |-> TRUE,
          plan |-> None, threw |-> FALSE, sight |-> None, garbled |-> FALSE, wrote |-> FALSE,
          made |-> {}, hadHistory |-> 0 ]

InitBrain ==
  /\ sg = None
  /\ bg = "null"
  /\ heap = [ r \in Refs |-> None ]
  /\ disk = NoFile
  /\ shadow = None
  /\ held = None
  /\ now = 0
  /\ last = NoOp
  /\ okNav = {}
  /\ outcomes = [ r \in Refs |-> Some(<<>>) ]
  /\ calls = [ t \in 1..MaxCalls |-> [ pc |-> "idle", n |-> 0, i |-> 0 ] ]
  /\ inputLog = <<>>

Init == InitBrain /\ llm = NoManager /\ probe = NoProbe

\* the Path objects something still refers to
LiveRefs(graph, h) ==
  (IF graph = None THEN {}
   ELSE UNION { { graph[1].edges[k][i] : i \in 1..Len(graph[1].edges[k]) } :
                k \in DOMAIN graph[1].edges })
  \cup { h[i] : i \in 1..Len(h) }

\* a written document holds a Path whose destination is the placeholder
DocHasPending(doc) ==
  \E k \in DOMAIN doc.edges : \E i \in 1..Len(doc.edges[k]) :
    doc.edges[k][i].toNodeId.stateHash = "pending"

\* what an operation observed of itself
Observed(w, op, target, node, ret) ==
  [ op |-> op, target |-> target, node |-> node, ret |-> ret,
    from |-> IF sg = None THEN None ELSE sg[1].currentNodeId,
    known |-> (sg # None /\ sg[1].currentNodeId # None
               /\ <<nodeIdToKey(sg[1].currentNodeId[1]), target>> \in okNav),
    fresh |-> (sg = None /\ disk.state = "absent"),
    loaded |-> (sg = None /\ disk.state = "json" /\ w.sg # None),
    learnCalls |-> w.learnCalls, inputs |-> w.inputs, plan |-> w.plan, threw |-> w.threw,
    sight |-> w.sight,
    garbled |-> (disk.state = "garbage"), wrote |-> (Len(w.docs) > 0),
    made |-> w.created,
    hadHistory |-> IF held # None /\ heap[held[1]] # None
                      /\ heap[held[1]][1].verificationHistory # None
                   THEN Len(heap[held[1]][1].verificationHistory[1]) ELSE 0,
    wrotePending |-> (\E i \in 1..Len(w.docs) : DocHasPending(w.docs[i])),
    wroteAll |-> (\A k \in 1..w.saves : k \notin w.fail) ]

RECURSIVE RunsOf(_, _)
\* what the executePath runs of a list on the object at r returned, in order
RunsOf(runs, r) ==
  IF runs = <<>> THEN <<>>
  ELSE (IF Head(runs)[1] = r THEN <<Head(runs)[2]>> ELSE <<>>) \o RunsOf(Tail(runs), r)

\* the state an operation leaves, the caller now holding h; objects nothing refers
\* to are collected.  outcomes is None for an object whose past runs are not known.
Finish(w, h, obs) ==
  /\ sg' = w.sg
  /\ bg' = w.bg
  /\ disk' = w.disk
  /\ shadow' = w.shadow
  /\ held' = h
  /\ heap' = [ r \in Refs |-> IF r \in LiveRefs(w.sg, h) THEN w.heap[r] ELSE None ]
  /\ last' = obs
  /\ outcomes' = [ r \in Refs |->
       IF r \notin LiveRefs(w.sg, h) THEN Some(<<>>)
       ELSE IF r \in w.created THEN Some(RunsOf(w.runs, r))
       ELSE IF obs.loaded \/ outcomes[r] = None THEN None
       ELSE Some(outcomes[r][1] \o RunsOf(w.runs, r)) ]
  /\ okNav' = IF obs.op = "navigateTo" /\ obs.ret
              THEN okNav \cup { <<nodeIdToKey(obs.from[1]), obs.target>> } ELSE okNav
  /\ now' = now
  /\ UNCHANGED <<calls, inputLog, llm, probe>>

\* visitCount stays within its cap when nodeId is visited
CanVisit(nodeId) ==
  sg # None /\ nodeIdToKey(nodeId) \in DOMAIN sg[1].nodes
    => sg[1].nodes[nodeIdToKey(nodeId)].metadata.visitCount < MaxVisits

\* the world in which the caller has let go of the Path it held
WorldReleased(failSet) ==
  [ World(failSet) EXCEPT !.heap = [ r \in Refs |-> IF r \in LiveRefs(sg, None) THEN heap[r] ELSE None ] ]

\* the operation op has returned res = <<world, value>>, the caller holding h
Returned(res, h, op, target, node, ret) ==
  Finish(res[1], h, Observed(res[1], op, target, node, ret))

\* initialize(); fails: the sets of save() calls whose write throws
Initialize(fails) ==
  \E f \in fails :
    Returned(initialize(World(f)), held, "initialize", "", None, initialize(World(f))[2])

\* addNode(nodeId)
BrainAddNode(ids, fails) ==
  \E nodeId \in ids, f \in fails :
    /\ CanVisit(nodeId)
    /\ Returned(addNode(World(f), nodeId), held, "addNode", "", Some(nodeId),
                addNode(World(f), nodeId)[2] # None)

\* identifyCurrentNode()
IdentifyCurrentNode(sights, percepts) ==
  \E sight \in sights, percept \in percepts :
    Returned(identifyCurrentNodeOn(World({}), sight, percept), held, "identifyCurrentNode", "",
             identifyCurrentNodeOn(World({}), sight, percept)[2],
             identifyCurrentNodeOn(World({}), sight, percept)[2] # None)

\* learnPath(targetDescription); the caller keeps the Path it returns
LearnPath(replies) ==
  \E reply \in replies :
    /\ FreeRefs(WorldReleased({}).heap) # {}
    /\ Returned(learnPath(WorldReleased({}), reply), learnPath(WorldReleased({}), reply)[2],
                "learnPath", "", None, learnPath(WorldReleased({}), reply)[2] # None)

\* a Path object a caller of the Brain makes: never run, from and to given
ManualPath(w, fromNodeId, toNodeId, actions, texts) ==
  [ id |-> randomUUID(w),
    fromNodeId |-> fromNodeId,
    toNodeId |-> toNodeId,
    actions |-> actions,
    validation |-> [ expectedElements |-> <<>>, expectedText |-> texts ],
    verificationHistory |-> None,
    metadata |-> [ successRate |-> <<0, 1>>, lastUsed |-> DateOf(now), usageCount |-> 0,
                   learnedBy |-> "manual" ] ]

\* the world in which the caller has put path at the free reference r
WithPath(w, r, path) == [ w EXCEPT !.heap[r] = Some(path), !.created = {r} ]

\* the caller makes a Path and keeps it
NewPath(ids, plans, texts) ==
  \E fromNodeId \in ids, toNodeId \in ids, actions \in plans, t \in texts :
    \E r \in FreeRefs(WorldReleased({}).heap) :
      /\ r = Min(FreeRefs(WorldReleased({}).heap))
      /\ Returned(<<WithPath(WorldReleased({}), r,
                             ManualPath(WorldReleased({}), fromNodeId, toNodeId, actions, t)),
                    TRUE>>,
                  Some(r), "newPath", "", None, TRUE)

\* executePath(path) on the Path the caller holds
ExecutePath(percepts, vlms, fails) ==
  /\ held # None
  /\ heap[held[1]][1].metadata.usageCount < MaxUsage
  /\ \E script \in Scripts(heap[held[1]][1].actions, percepts, vlms), f \in fails :
       Returned(executePath(World(f), held[1], script), held, "executePath", "", None,
                executePath(World(f), held[1], script)[2])

\* navigateTo(target) with the answers of the environment
NavigateWith(target, reply, script, seen, f) ==
  Returned(navigateTo(World(f), reply, script, seen), held, "navigateTo", target, seen.id,
           navigateTo(World(f), reply, script, seen)[2])

\* navigateTo, the path executed: ran is what executePath returned
NavigateRan(ran, target, reply, script, seens, f1, f23s) ==
  IF ~ran
  THEN NavigateWith(target, reply, script, NotSeen, f1)
  ELSE \E seen \in seens :
         IF seen.id = None
         THEN NavigateWith(target, reply, script, seen, f1)
         ELSE /\ CanVisit(seen.id[1])
              /\ \E f23 \in f23s : NavigateWith(target, reply, script, seen, f1 \cup f23)

\* navigateTo, the path learned or not
NavigateLearned(learned, target, reply, percepts, seens, f1s, f23s) ==
  IF learned[2] = None
  THEN NavigateWith(target, reply, <<>>, NotSeen, {})
  ELSE \E script \in Scripts(learned[1].heap[learned[2][1]][1].actions, percepts, {NoReply}),
          f1 \in f1s :
         NavigateRan(executePath(learned[1], learned[2][1], script)[2],
                     target, reply, script, seens, f1, f23s)

\* navigateTo(targetDescription).  The environment's answers are enumerated as far
\* as the call consults them: f1 is about the save of executePath, f23 about the
\* saves of addPath and addNode.
NavigateTo(targets, replies, percepts, seens, f1s, f23s) ==
  \E target \in targets, reply \in replies :
    /\ FreeRefs(heap) # {}
    /\ NavigateLearned(learnPath(World({}), reply), target, reply, percepts, seens, f1s, f23s)

\* the Paths of a graph file, counted with repetitions
DocPaths(file) ==
  IF file.state # "json" THEN <<>>
  ELSE LET keys == DOMAIN file.doc.edges
           RECURSIVE All(_)
           All(ks) == IF ks = {} THEN <<>>
                      ELSE LET k == CHOOSE x \in ks : TRUE
                           IN  file.doc.edges[k] \o All(ks \ {k})
       IN  All(keys)

\* the graph file is cut short, as by a process that died while writing it
Truncate ==
  /\ sg = None /\ disk.state = "json"
  /\ disk' = Garbage
  /\ last' = [ NoOp EXCEPT !.op = "truncate" ]
  /\ UNCHANGED <<sg, bg, heap, shadow, held, now, okNav, outcomes, calls, inputLog, llm, probe>>

\* JSONStorage.load()
StorageLoad ==
  Returned(<<Load(World({})), TRUE>>, held, "load", "", None, ~Load(World({})).threw)

\* JSONStorage.addNode(node), the node being a new one of id nodeId
StorageAddNodeCall(ids) ==
  \E nodeId \in ids :
    Returned(<<StorageAddNode(World({}), NewNode(nodeId)), TRUE>>, held, "storage.addNode", "",
             Some(nodeId), TRUE)

\* JSONStorage.addPath(path) and updatePath(path), path being the Path the caller holds
StorageAddPathCall ==
  /\ held # None
  /\ Returned(<<StorageAddPath(World({}), held[1]), TRUE>>, held, "storage.addPath", "", None, TRUE)

\* JSONStorage.deletePath(pathId)
StorageDeletePathCall(pathIds) ==
  \E pathId \in pathIds :
    \E first \in (IF HitKeys(Load(World({})), pathId) = {} THEN { None }
                  ELSE { Some(k) : k \in HitKeys(Load(World({})), pathId) }) :
      Returned(<<StorageDeletePath(World({}), pathId, first), TRUE>>, held, "storage.deletePath",
               "", None, first # None)

\* JSONStorage.clear(), on a storage no Brain shares
StorageClearCall ==
  /\ bg = "null"
  /\ Returned(<<StorageClear(World({})), TRUE>>, held, "storage.clear", "", None, TRUE)

Restart ==
  /\ sg # None
  /\ Len(DocPaths(disk)) <= MaxPaths
  /\ sg' = None /\ bg' = "null" /\ shadow' = None /\ held' = None
  /\ heap' = [ r \in Refs |-> None ]
  /\ outcomes' = [ r \in Refs |-> Some(<<>>) ]
  /\ okNav' = {}
  /\ last' = [ NoOp EXCEPT !.op = "restart" ]
  /\ UNCHANGED <<disk, now, calls, inputLog, llm, probe>>

Tick ==
  /\ now < MaxClock
  /\ now' = now + 1
  /\ last' = [ NoOp EXCEPT !.op = "tick" ]
  /\ UNCHANGED <<sg, bg, heap, disk, shadow, held, okNav, outcomes, calls, inputLog, llm, probe>>

-----------------------------------------------------------------------------
(* The Agent's tool calls.  executeToolCalls maps the tool calls of one LLM  *)
(* response to promises and awaits Promise.all of them: every call runs up  *)
(* to its first await, and from then on each resumes when what it awaits    *)
(* settles, in any order.  A step is the run of one call between two awaits. *)
(* Every call here is navigate_to, that is NavigationBrain.navigateTo.      *)

Calls == 1..MaxCalls
IdleCall == [ pc |-> "idle", n |-> 0, i |-> 0 ]
BrainVars == <<sg, bg, heap, disk, shadow, held, now, last, okNav, outcomes>>

\* executeToolCalls(toolCalls): the first k calls start and suspend in learnPath,
\* at the await of the vision model's plan
ExecuteToolCalls ==
  /\ \A t \in Calls : calls[t].pc = "idle"
  /\ \E k \in Calls :
       calls' = [ t \in Calls |-> IF t <= k THEN [ IdleCall EXCEPT !.pc = "learning" ]
                                  ELSE IdleCall ]
  /\ inputLog' = <<>>
  /\ UNCHANGED <<BrainVars, llm, probe>>

\* call t resumes with the plan: no Path (n = 0) and navigateTo returns false, or a
\* Path of n actions, and executePath dispatches action 0 and suspends
CallLearned(t) ==
  /\ calls[t].pc = "learning"
  /\ \E n \in 0..MaxActions :
       IF n = 0
       THEN calls' = [ calls EXCEPT ![t].pc = "done" ] /\ UNCHANGED inputLog
       ELSE /\ calls' = [ calls EXCEPT ![t] = [ pc |-> "settling", n |-> n, i |-> 0 ] ]
            /\ inputLog' = Append(inputLog, <<t, 0>>)
  /\ UNCHANGED <<BrainVars, llm, probe>>

\* call t resumes after the delay, the ShadowDOM rebuild and the verification of
\* action i: failed and executePath returns false, or the next action is
\* dispatched, or the loop is over and navigateTo goes on to identifyCurrentNode
CallSettled(t) ==
  /\ calls[t].pc = "settling"
  /\ \E verified \in BOOLEAN :
       IF ~verified
       THEN calls' = [ calls EXCEPT ![t].pc = "done" ] /\ UNCHANGED inputLog
       ELSE IF calls[t].i + 1 < calls[t].n
       THEN /\ calls' = [ calls EXCEPT ![t].i = @ + 1 ]
            /\ inputLog' = Append(inputLog, <<t, calls[t].i + 1>>)
       ELSE calls' = [ calls EXCEPT ![t].pc = "identifying" ] /\ UNCHANGED inputLog
  /\ UNCHANGED <<BrainVars, llm, probe>>

\* call t resumes after identifyCurrentNode, addPath and addNode: navigateTo returns
CallIdentified(t) ==
  /\ calls[t].pc = "identifying"
  /\ calls' = [ calls EXCEPT ![t].pc = "done" ]
  /\ UNCHANGED <<inputLog, BrainVars, llm, probe>>

\* Promise.all settles: every started call has returned
ToolCallsReturned ==
  /\ \E t \in Calls : calls[t].pc = "done"
  /\ \A t \in Calls : calls[t].pc \in {"idle", "done"}
  /\ calls' = [ t \in Calls |-> IdleCall ]
  /\ UNCHANGED <<inputLog, BrainVars, llm, probe>>

-----------------------------------------------------------------------------
(* The LLMManager's operations *)

\* new LLMManager(config): one provider, or one per mode
NewManager ==
  /\ \E provider \in Providers, multi \in BOOLEAN : llm' = Manager(provider, multi)
  /\ UNCHANGED <<BrainVars, calls, inputLog, probe>>

\* addUserMessage(content)
AddUserMessage ==
  /\ llm.made
  /\ Len(llm.history) < MaxHistory
  /\ llm' = [ llm EXCEPT !.history = providerAddUserMessage(llm.history, <<"u">>),
                         !.last = [ NoCall EXCEPT !.op = "addUserMessage" ] ]
  /\ UNCHANGED <<BrainVars, calls, inputLog, probe>>

\* clearHistory()
ClearHistory ==
  /\ llm.made
  /\ llm' = [ llm EXCEPT !.history = <<>>, !.last = [ NoCall EXCEPT !.op = "clearHistory" ] ]
  /\ UNCHANGED <<BrainVars, calls, inputLog, probe>>

\* the manager's call op has ended as res, the API having answered from script
Called(op, mode, script, res) ==
  /\ llm' = [ llm EXCEPT !.history = res.history,
                         !.last = [ op |-> op, mode |-> mode,
                                    script |-> SubSeq(script, 1, res.api),
                                    out |-> res.out, api |-> res.api, slept |-> res.slept,
                                    before |-> llm.history ] ]
  /\ UNCHANGED <<BrainVars, calls, inputLog, probe>>

\* send(tools)
ManagerSend ==
  /\ llm.made
  /\ Len(llm.history) < MaxHistory
  /\ \E first \in Outcomes, second \in Outcomes :
       Called("send", "default", <<first, second>>, managerSend(llm, first, second))

\* sendWithMode(mode, messages, tools)
ManagerSendWithMode ==
  /\ llm.made
  /\ \E mode \in Modes, first \in Outcomes, second \in Outcomes :
       Called("sendWithMode", mode, <<first, second>>, sendWithMode(llm, mode, first, second))

\* MouseController.clickBBoxCenter(bbox) on a display that keeps its size
ClickBBoxCenter(bboxes, screens) ==
  \E bbox \in bboxes, screen \in screens :
    /\ probe.op = "clickBBoxCenter" => screen = probe.screen
    /\ probe' = [ op |-> "clickBBoxCenter", bbox |-> bbox, screen |-> screen,
                  cachedScreenSize |->
                    Some(getScreenSize(IF probe.op = "none" THEN None ELSE probe.cachedScreenSize,
                                       screen)),
                  click |-> clickBBoxCenter(bbox,
                              getScreenSize(IF probe.op = "none" THEN None
                                            ELSE probe.cachedScreenSize, screen)) ]
    /\ UNCHANGED <<inputLog, BrainVars, llm, calls>>

\* StateHasher.hashElements(elements), for a caller that keeps the elements and the hash
HashElements(lists) ==
  \E elements \in lists :
    /\ probe' = [ op |-> "hashElements", elements |-> elements, hash |-> hashElements(elements),
                  other |-> elements, otherHash |-> hashElements(elements) ]
    /\ UNCHANGED <<inputLog, BrainVars, llm, calls>>

\* hashElements of the elements kept, in another order
HashPermuted ==
  /\ probe.op # "none"
  /\ \E p \in Permutations(1..Len(probe.elements)) :
       probe' = [ probe EXCEPT !.op = "permuted",
                               !.other = [ i \in 1..Len(probe.elements) |-> probe.elements[p[i]] ],
                               !.otherHash = hashElements([ i \in 1..Len(probe.elements) |->
                                                            probe.elements[p[i]] ]) ]
  /\ UNCHANGED <<inputLog, BrainVars, llm, calls>>

\* hashElements of the elements kept, once they are seen at other places
HashMoved(lists) ==
  /\ probe.op # "none"
  /\ \E moved \in lists :
       /\ Len(moved) = Len(probe.elements)
       /\ \A i \in 1..Len(moved) : MovedLessThan(probe.elements[i], moved[i], QuantumPx)
       /\ probe' = [ probe EXCEPT !.op = "moved", !.other = moved,
                                  !.otherHash = hashElements(moved) ]
  /\ UNCHANGED <<inputLog, BrainVars, llm, calls>>

-----------------------------------------------------------------------------
(* The environments of the specifications *)

NoFail == { {} }
HomeId == [ programName |-> "Finder", stateHash |-> "a1" ]
\* an action {data, retryOnFailure} of a Path
PathAction(t, retry) == [ data |-> [ type |-> t ], retryOnFailure |-> retry ]
ClickPlans == SeqsUpTo({ PlanEntry("click") }, 1)
NoOcr == Percepts({ None })

\* the texts of the OCR elements of a screen, and the texts a Path expects
OcrTexts == { None, Some(<<>>), Some(<< <<"d">> >>), Some(<< <<"x">> >>),
              Some(<< <<"x", "D">>, <<"x">> >>) }
ExpectedTexts == { None, Some(<< <<"D">> >>), Some(<< <<"D">>, <<"x", "x">> >>) }

-----------------------------------------------------------------------------
(* Spec: the Brain's entry points called one after the other, every file    *)
(* write succeeding, the screen being Finder's whenever it is recognised.   *)

Next ==
  \/ Initialize(NoFail)
  \/ BrainAddNode({ HomeId, SpotlightId }, NoFail)
  \/ NavigateTo({"Settings"}, LearnReplies(ClickPlans), NoOcr, Seens({ HomeId }, NoOcr),
                NoFail, NoFail)

Spec == Init /\ [][Next]_vars

(* SpecRate: a caller runs Paths of one click over and over. *)
NextRate ==
  \/ NewPath({ HomeId }, { <<PathAction("click", TRUE)>>, <<PathAction("wait", FALSE)>> }, { None })
  \/ ExecutePath(NoOcr, { NoReply }, NoFail)

SpecRate == Init /\ [][NextRate]_vars

(* SpecVerify: a caller runs Paths that expect texts on the screen. *)
NextVerify ==
  \/ NewPath({ HomeId }, SeqsUpTo({ PathAction("click", FALSE) }, MaxActions) \ { <<>> },
             ExpectedTexts)
  \/ ExecutePath(Percepts(OcrTexts), { NoReply }, NoFail)

SpecVerify == Init /\ [][NextVerify]_vars

(* SpecRetry: a caller runs Paths whose clicks may fail, some to be retried. *)
NextRetry ==
  \/ NewPath({ HomeId },
             SeqsUpTo({ PathAction("click", TRUE), PathAction("click", FALSE) }, MaxActions)
               \ { <<>> },
             { None })
  \/ ExecutePath({ [ ok |-> TRUE, ocr |-> None ] }, { NoReply }, NoFail)

SpecRetry == Init /\ [][NextRetry]_vars

(* SpecFail: every entry point of the Brain, with captures, OCR, vision-model *)
(* calls and file writes that may fail.                                      *)
UiElement(type, text, position) == [ type |-> type, text |-> text, position |-> position ]
BBox(x, y, width, height) == [ x |-> x, y |-> y, width |-> width, height |-> height ]
OkButton == UiElement("button", Some(<<"D">>), Some(BBox(12, 0, 10, 10)))
Finder == [ kind |-> "text", content |-> <<"F", "i", "n", "d", "e", "r">> ]
Sight(capture, ocr, name, uiKind, elements) ==
  [ capture |-> capture, ocr |-> ocr, name |-> name, ui |-> [ kind |-> uiKind, elements |-> elements ] ]
FailSights ==
  { Sight(FALSE, None, Finder, "json", <<OkButton>>), Sight(TRUE, None, Finder, "json", <<OkButton>>),
    Sight(TRUE, None, [ kind |-> "throw", content |-> <<>> ], "json", <<OkButton>>),
    Sight(TRUE, None, Finder, "throw", <<>>) }
OneClickReplies ==
  { [ kind |-> k, actions |-> <<>>, confidence |-> 0 ] : k \in { "captureThrow", "throw" } }
  \cup { [ kind |-> "json", actions |-> <<PlanEntry("click")>>, confidence |-> 8 ] }
Shown == { [ ok |-> TRUE, ocr |-> None ] }

NextFail ==
  \/ Initialize({ {}, {1}, {2} })
  \/ BrainAddNode({ SpotlightId }, { {}, {1} })
  \/ IdentifyCurrentNode(FailSights, Shown)
  \/ LearnPath(OneClickReplies)
  \/ ExecutePath(Shown, { NoReply }, { {1} })
  \/ NavigateTo({"Settings"}, OneClickReplies, Shown, Seens({ SpotlightId }, Shown),
                { {1} }, { {} })

SpecFail == Init /\ [][NextFail]_vars

(* SpecHash: hashElements on lists of elements, on their permutations and on *)
(* the same elements seen a few pixels away.                                *)
MaxElements == 2   \* elements of a list
Pixels == { 9, 10 }
Boxes == { None } \cup { Some(BBox(x, 0, width, 10)) : x \in Pixels, width \in { 10, 20 } }
UiElements ==
  { UiElement(type, text, position) :
    type \in { "button", "text" }, text \in { None, Some(<<" ", "D">>) },
    position \in Boxes }
ElementLists == SeqsUpTo(UiElements, MaxElements)

NextHash ==
  \/ HashElements(ElementLists)
  \/ HashPermuted
  \/ HashMoved(ElementLists)

SpecHash == Init /\ [][NextHash]_vars

(* SpecClick: clickBBoxCenter on bounding boxes, normalized or in pixels. *)
Coordinates == 0..(Parts + 1)
BBoxes == { BBox(x, y, width, height) : x \in Coordinates, y \in Coordinates,
                                        width \in Coordinates, height \in Coordinates }
Screens == { [ width |-> w, height |-> h ] : w \in { 2, 3 }, h \in { 1, 2 } }

NextClick == ClickBBoxCenter(BBoxes, Screens)

SpecClick == Init /\ [][NextClick]_vars

(* SpecStore: callers of the storage and of the Brain, a graph file that may *)
(* be cut short between two processes.                                     *)
NextStore ==
  \/ StorageLoad
  \/ StorageAddNodeCall({ HomeId })
  \/ (sg # None /\ NewPath({ HomeId, SpotlightId }, { <<PathAction("wait", FALSE)>> }, { None }))
  \/ StorageAddPathCall
  \/ StorageDeletePathCall(1..MaxPaths)
  \/ StorageClearCall
  \/ Initialize(NoFail)
  \/ BrainAddNode({ HomeId }, NoFail)
  \/ Truncate
  \/ Restart

SpecStore == Init /\ [][NextStore]_vars

(* SpecKeys: a caller runs Paths of keyboard actions and clicks whose dispatch *)
(* may throw.                                                                *)
NextKeys ==
  \/ NewPath({ HomeId },
             SeqsUpTo({ PathAction("type", TRUE), PathAction("hotkey", FALSE),
                        PathAction("click", FALSE) }, MaxActions) \ { <<>> },
             { None })
  \/ ExecutePath(Shown, { NoReply }, NoFail)

SpecKeys == Init /\ [][NextKeys]_vars

(* SpecIdentify: identifyCurrentNode before every sight. *)
NameReplies ==
  { [ kind |-> "throw", content |-> <<>> ] }
  \cup { [ kind |-> "text", content |-> c ] :
          c \in { <<>>, <<"\"", " ", "\"">>, <<" ", "'", "F", "'">> } }
UiReplies ==
  { [ kind |-> k, elements |-> <<>> ] : k \in { "throw", "noJson", "badJson", "json" } }
  \cup { [ kind |-> "json", elements |-> <<OkButton>> ] }
OcrData == { None, Some(<<>>), Some(<<[ text |-> <<"a">>, bbox |-> Some(BBox(0, 0, 10, 10)) ]>>) }
Sights ==
  { [ capture |-> c, ocr |-> o, name |-> n, ui |-> u ] :
    c \in BOOLEAN, o \in OcrData, n \in NameReplies, u \in UiReplies }

NextIdentify ==
  \/ Initialize(NoFail)
  \/ IdentifyCurrentNode(Sights, NoOcr)

SpecIdentify == Init /\ [][NextIdentify]_vars

(* SpecInit: processes start, initialize the Brain, visit nodes and end; a  *)
(* file write may fail.                                                     *)
NextInit ==
  \/ Initialize({ {}, {1}, {2} })
  \/ BrainAddNode({ HomeId, SpotlightId }, { {}, {1} })
  \/ Restart
  \/ Tick

SpecInit == Init /\ [][NextInit]_vars

-----------------------------------------------------------------------------
(* Properties of the stored graph (Spec) *)

\* the Path objects of the edge list under key k
EdgePaths(k) == [ i \in 1..Len(sg[1].edges[k]) |-> heap[sg[1].edges[k][i]][1] ]

\* C1: after any sequence of addPath / updatePath calls, those of executePath and
\* navigateTo included, no edge list holds two entries with the same id or two
\* entries with the same toNodeId.
C1_EdgeListsUnique ==
  sg # None =>
    \A k \in DOMAIN sg[1].edges : \A i, j \in 1..Len(EdgePaths(k)) :
      i # j => /\ EdgePaths(k)[i].id # EdgePaths(k)[j].id
               /\ nodeIdToKey(EdgePaths(k)[i].toNodeId) # nodeIdToKey(EdgePaths(k)[j].toNodeId)

\* C1, the state that breaks it: a navigateTo that returned true has left one Path
\* object twice in an edge list.
C1_SamePathTwice ==
  /\ last.op = "navigateTo" /\ last.ret
  /\ \E k \in DOMAIN sg[1].edges : \E i, j \in 1..Len(sg[1].edges[k]) :
       i # j /\ sg[1].edges[k][i] = sg[1].edges[k][j]

\* C2: no graph document that save() writes holds a Path whose
\* toNodeId.stateHash is "pending".
C2_NoPendingWritten == ~last.wrotePending

\* C2, the state that breaks it: navigateTo has returned false and the graph file
\* holds the Path it learned, its destination still the placeholder.
C2_PendingLeftOnDisk ==
  /\ last.op = "navigateTo" /\ ~last.ret
  /\ disk.state = "json" /\ DocHasPending(disk.doc)

\* C3: a navigateTo(target) called at a node from which navigateTo(target) has
\* returned true before runs the stored Path without calling learnNavigationPath.
C3_ReplayWithoutLearning ==
  (last.op = "navigateTo" /\ last.known) => last.learnCalls = 0

\* C3, the state that breaks it: the second navigateTo from the same node with the
\* same target has asked the vision model for a plan again.
C3_LearnedAgain ==
  last.op = "navigateTo" /\ last.known /\ last.ret /\ last.learnCalls = 1

\* C7: whenever addNode, executePath or navigateTo has returned, every Path in
\* edges has its fromNodeId and its toNodeId among the keys of nodes.
C7_PathEndsAreNodes ==
  (last.op \in {"addNode", "executePath", "navigateTo"} /\ sg # None) =>
    \A k \in DOMAIN sg[1].edges : \A i \in 1..Len(EdgePaths(k)) :
      /\ nodeIdToKey(EdgePaths(k)[i].fromNodeId) \in DOMAIN sg[1].nodes
      /\ nodeIdToKey(EdgePaths(k)[i].toNodeId) \in DOMAIN sg[1].nodes

\* C7, the state that breaks it: navigateTo has returned false and edges holds a
\* Path to Unknown::pending, which is no node.
C7_EdgeToNoNode ==
  /\ last.op = "navigateTo" /\ ~last.ret /\ sg # None
  /\ nodeIdToKey(PendingId) \notin DOMAIN sg[1].nodes
  /\ \E k \in DOMAIN sg[1].edges : \E i \in 1..Len(EdgePaths(k)) :
       EdgePaths(k)[i].toNodeId = PendingId

\* the world of a fresh JSONStorage over the file of w, once it has loaded it
LoadedAfresh(w) == Load([ w EXCEPT !.sg = None, !.heap = [ r \in Refs |-> None ] ])

\* the graph w holds and the graph a fresh JSONStorage loads from the file save() wrote
SavedGraph(w) == Resolve(w.sg[1], w.heap)
ReloadedGraph(w) == Resolve(LoadedAfresh(w).sg[1], LoadedAfresh(w).heap)

\* the graph in memory can be loaded again within the bound on Path objects
Reloadable == sg # None /\ Len(DocPaths(Save(World({})).disk)) <= MaxPaths

\* C8: saving a graph and loading the written file in a fresh JSONStorage gives a
\* graph equal to the original in every node and path field, verificationHistory
\* timestamps included, in currentNodeId and in the order of every edge list.
C8_SaveLoadRoundTrip ==
  Reloadable => ReloadedGraph(Save(World({}))) = SavedGraph(Save(World({})))

\* C8, the state that breaks it: the loaded graph holds a verification whose
\* timestamp is no Date.
C8_StampLoadedAsString ==
  /\ Reloadable
  /\ \E k \in DOMAIN ReloadedGraph(Save(World({}))).edges :
       \E i \in 1..Len(ReloadedGraph(Save(World({}))).edges[k]) :
         LET path == ReloadedGraph(Save(World({}))).edges[k][i] IN
         /\ path.verificationHistory # None
         /\ \E n \in 1..Len(path.verificationHistory[1]) :
              ~IsDate(path.verificationHistory[1][n].timestamp)

-----------------------------------------------------------------------------
(* Properties of executePath (SpecRate, SpecVerify) *)

\* the number of TRUE entries of a sequence of booleans
Trues(q) == Cardinality({ i \in 1..Len(q) : q[i] })

\* C4: a Path that starts with usageCount 0 and successRate 0 and has been passed
\* to executePath N >= 1 times has usageCount N, and successRate * usageCount is
\* the number of those calls that returned true.
C4_SuccessRateIsMean ==
  \A r \in Refs :
    (heap[r] # None /\ outcomes[r] # None /\ Len(outcomes[r][1]) >= 1) =>
      /\ heap[r][1].metadata.usageCount = Len(outcomes[r][1])
      /\ heap[r][1].metadata.successRate[1] * heap[r][1].metadata.usageCount
           = Trues(outcomes[r][1]) * heap[r][1].metadata.successRate[2]

\* C4, its case: a Path run twice, the first run true and the second false, has
\* usageCount 2 and successRate 1/2.
C4_MixedOutcomes ==
  \E r \in Refs :
    /\ heap[r] # None /\ outcomes[r] = Some(<<TRUE, FALSE>>)
    /\ heap[r][1].metadata.usageCount = 2
    /\ heap[r][1].metadata.successRate = <<1, 2>>

\* the Path the caller holds
HeldPath == heap[held[1]][1]

\* executePath has just run on a held Path that expects texts and no elements
RanTextPath ==
  /\ last.op = "executePath" /\ held # None
  /\ HeldPath.validation.expectedText # None
  /\ Len(HeldPath.validation.expectedText[1]) >= 1
  /\ Len(HeldPath.validation.expectedElements) = 0

\* every action of the held Path was dispatched once, with success
AllDispatched ==
  last.inputs = [ i \in 1..Len(HeldPath.actions) |-> <<i - 1, TRUE, TRUE>> ]

\* an OCR element of the ShadowDOM contains q, case-insensitively
OcrContains(q) ==
  /\ shadow # None /\ shadow[1].ocrResult # None
  /\ \E i \in 1..Len(shadow[1].ocrResult[1]) :
       includes(toLowerCase(shadow[1].ocrResult[1][i]), toLowerCase(q))

\* the last PathVerification of the held Path gives the reason "Expected text not found: ..."
LastReasonTextNotFound ==
  /\ HeldPath.verificationHistory # None
  /\ Len(HeldPath.verificationHistory[1]) >= 1
  /\ HeldPath.verificationHistory[1][Len(HeldPath.verificationHistory[1])].failureReason # None
  /\ HeldPath.verificationHistory[1][Len(HeldPath.verificationHistory[1])].failureReason[1][1]
       = "Expected text not found: "

\* C5: for a Path with a single expectedText query q and no expectedElements whose
\* actions all dispatch successfully, executePath returns true iff the ShadowDOM's
\* OCR elements after the final action contain q case-insensitively; otherwise it
\* returns false and appends a PathVerification whose failureReason begins
\* "Expected text not found".
C5_TextDecidesOutcome ==
  (RanTextPath /\ Len(HeldPath.validation.expectedText[1]) = 1 /\ AllDispatched) =>
    /\ last.ret <=> OcrContains(HeldPath.validation.expectedText[1][1])
    /\ ~last.ret => LastReasonTextNotFound

\* C5, the state that breaks it: executePath returned true for a Path expecting a
\* text, the ShadowDOM having no OCR result.
C5_TrueWithoutOcr ==
  /\ RanTextPath /\ Len(HeldPath.validation.expectedText[1]) = 1 /\ AllDispatched
  /\ last.ret /\ shadow # None /\ shadow[1].ocrResult = None

\* C6: with a non-empty expectedText the verification succeeds only if every query
\* is a case-insensitive substring of some ShadowDOM OCR element; a run whose last
\* verification misses a query fails with "Expected text not found".
C6_EveryQueryNeeded ==
  (RanTextPath /\ AllDispatched) =>
    IF \A n \in 1..Len(HeldPath.validation.expectedText[1]) :
         OcrContains(HeldPath.validation.expectedText[1][n])
    THEN TRUE
    ELSE ~last.ret /\ LastReasonTextNotFound

\* C6, the state that breaks it: the OCR ran, one query is on the screen, another
\* is not, and the verification succeeded.
C6_OneQuerySufficed ==
  /\ RanTextPath /\ AllDispatched /\ last.ret
  /\ shadow # None /\ shadow[1].ocrResult # None
  /\ \E n \in 1..Len(HeldPath.validation.expectedText[1]) :
       OcrContains(HeldPath.validation.expectedText[1][n])
  /\ \E n \in 1..Len(HeldPath.validation.expectedText[1]) :
       ~OcrContains(HeldPath.validation.expectedText[1][n])

-----------------------------------------------------------------------------
(* Properties of initialize (SpecInit) *)

SpotlightKey == nodeIdToKey(SpotlightId)

\* nodes holds the Spotlight node, never visited, and no other node
OnlySpotlight(nodes) ==
  DOMAIN nodes = { SpotlightKey } /\ nodes[SpotlightKey].metadata.visitCount = 0

\* the graph in memory and the graph file hold the Spotlight node alone and no edge
BootstrapGraph ==
  /\ sg # None /\ bg = "shared"
  /\ OnlySpotlight(sg[1].nodes) /\ DOMAIN sg[1].edges = {}
  /\ disk.state = "json"
  /\ OnlySpotlight(disk.doc.nodes) /\ DOMAIN disk.doc.edges = {}

\* the nodes the Brain knows: those in memory, else those of the graph file
KnownNodes ==
  IF sg # None THEN sg[1].nodes
  ELSE IF disk.state = "json" THEN disk.doc.nodes
  ELSE <<>>

\* initialize() called where the Spotlight node is known adds no node and keeps
\* the node's visitCount
InitializeAgain ==
  (last'.op = "initialize" /\ last'.ret /\ SpotlightKey \in DOMAIN KnownNodes) =>
    /\ DOMAIN sg'[1].nodes = DOMAIN KnownNodes
    /\ sg'[1].nodes[SpotlightKey].metadata.visitCount
         = KnownNodes[SpotlightKey].metadata.visitCount

-----------------------------------------------------------------------------
(* SpecConc: the Agent executes the tool calls of LLM responses. *)

NextConc ==
  \/ ExecuteToolCalls
  \/ \E t \in Calls : CallLearned(t)
  \/ \E t \in Calls : CallSettled(t)
  \/ \E t \in Calls : CallIdentified(t)
  \/ ToolCallsReturned

SpecConc == Init /\ [][NextConc]_vars

\* call t is inside navigateTo, suspended at an await
Inside(t) == calls[t].pc \in {"learning", "settling", "identifying"}

\* the inputs of each call are next to each other in the log
InputsContiguous ==
  \A a, b, c \in 1..Len(inputLog) :
    (a < b /\ b < c /\ inputLog[a][1] = inputLog[c][1]) => inputLog[b][1] = inputLog[a][1]

\* C10: Brain entry points are mutually exclusive: no two calls are inside the
\* Brain at once, and the input actions of two navigation requests never
\* interleave, also for the tool calls of one LLM response.
C10_EntryPointsExclusive ==
  /\ \A t, u \in Calls : (t # u /\ Inside(t)) => ~Inside(u)
  /\ InputsContiguous

\* C10, the state that breaks it: call 1 has dispatched its action 0, call 2 its
\* action 0, and call 1 its action 1.
C10_InputsInterleaved ==
  Len(inputLog) >= 3 /\ inputLog[1] = <<1, 0>> /\ inputLog[2] = <<2, 0>> /\ inputLog[3] = <<1, 1>>

-----------------------------------------------------------------------------
(* SpecLLM: managers are made, user messages added and the model called.    *)

NextLLM ==
  \/ NewManager
  \/ AddUserMessage
  \/ ClearHistory
  \/ ManagerSend
  \/ ManagerSendWithMode

SpecLLM == Init /\ [][NextLLM]_vars

(* Properties of the orchestrator (SpecLLM) *)

\* the last call met, on the provider's first call, an Error whose message contains
\* 'rate limit'
RateLimitedFirst ==
  /\ llm.last.op \in { "send", "sendWithMode" }
  /\ llm.last.api >= 1
  /\ llm.last.script[1].kind = "error"
  /\ llm.last.script[1].isError
  /\ includes(llm.last.script[1].message, RateLimit)

\* the provider the last call went to
CalledProvider == getLLMForMode(llm, llm.last.mode)

\* the provider's second call of the last call succeeded
SecondAnswered ==
  /\ llm.last.api = 2
  /\ llm.last.script[2].kind = "reply"
  /\ ReadReply(CalledProvider, llm.last.script[2]).kind = "response"

\* C11: send, and sendWithMode in each mode, retry once after 1 s when the provider's
\* first call fails with a 'rate limit' error, and return the second call's Response
C11_RateLimitRetriedOnce ==
  RateLimitedFirst =>
    /\ llm.last.api = 2
    /\ llm.last.slept = <<1000>>
    /\ SecondAnswered => llm.last.out = ReadReply(CalledProvider, llm.last.script[2])

\* sendWithMode("default", ...) met a 'rate limit' error and threw it without a retry
C11_DefaultModeNotRetried ==
  /\ RateLimitedFirst
  /\ llm.last.op = "sendWithMode" /\ llm.last.mode = "default"
  /\ llm.last.api = 1 /\ llm.last.slept = <<>>
  /\ llm.last.out = llm.last.script[1]

\* the last call was a stateful send that returned a Response
SendReturned == llm.last.op = "send" /\ llm.last.out.kind = "response"

\* C12: after every successful stateful send the provider's history has grown by exactly
\* one assistant-role entry holding the response text, whatever the shape of the response
C12_AssistantTextAppended ==
  SendReturned =>
    llm.history = Append(llm.last.before,
                         [ role |-> AssistantRole(llm.default), content |-> llm.last.out.content ])

\* a send returned tool calls without text and left the history as it was
C12_ToolCallsOnlyNotAppended ==
  /\ SendReturned
  /\ llm.last.out.content = <<>> /\ llm.last.out.toolCalls > 0
  /\ llm.history = llm.last.before

-----------------------------------------------------------------------------
(* Properties of learning (Spec) *)

\* the last navigateTo got a plan from the vision model that has no action or reports
\* a confidence below 0.3
PlanTooWeak ==
  /\ last.op = "navigateTo"
  /\ last.plan # None
  /\ (last.plan[1].actions = 0 \/ last.plan[1].confidence < LearnThresholdTenths)

\* C13: a plan with no action or a reported confidence below 0.3, 0 included, is
\* rejected: navigateTo returns false and dispatches no action
C13_WeakPlanRejected ==
  PlanTooWeak => (~last.ret /\ last.inputs = <<>>)

\* a plan reporting confidence 0 was executed
C13_ZeroConfidenceExecuted ==
  /\ PlanTooWeak
  /\ last.plan[1].confidence = 0
  /\ last.inputs # <<>>

-----------------------------------------------------------------------------
(* Properties of the dispatch loop (SpecRetry) *)

\* C14: within one executePath run an action is dispatched a second time only right
\* after its first dispatch, only if that one failed and only if the action has
\* retryOnFailure; hence no action is dispatched more than twice
C14_RetriedAtMostOnce ==
  last.op = "executePath" =>
    \A j \in 1..Len(last.inputs) : \A k \in 1..Len(last.inputs) :
      (j < k /\ last.inputs[j][1] = last.inputs[k][1]) =>
        /\ k = j + 1
        /\ ~last.inputs[j][2]
        /\ HeldPath.actions[last.inputs[j][1] + 1].retryOnFailure

\* a run retried its first action and went on to dispatch the next one
C14_RetriedThenWentOn ==
  /\ last.op = "executePath"
  /\ Len(last.inputs) >= 3
  /\ last.inputs[1][1] = 0 /\ last.inputs[2][1] = 0 /\ last.inputs[3][1] = 1

-----------------------------------------------------------------------------
(* Failures at the Brain's entry points (SpecFail) *)

EntryPoints ==
  { "initialize", "identifyCurrentNode", "addNode", "learnPath", "executePath", "navigateTo" }

\* the capture or a call of the vision model failed under identifyCurrentNode
SightFailed ==
  /\ last.sight # None
  /\ (~last.sight[1].capture \/ last.sight[1].name.kind = "throw"
        \/ last.sight[1].ui.kind = "throw")

-----------------------------------------------------------------------------
(* identifyCurrentNode before a reply that cannot be parsed (SpecIdentify) *)

\* identifyCurrentNode has returned, the vision model's reply about the UI elements
\* being of kind k
IdentifiedOn(k) ==
  last.op = "identifyCurrentNode" /\ last.sight # None /\ last.sight[1].ui.kind = k

\* C16: identifyCurrentNode returns null whenever the capture fails or the vision
\* model's reply holds no JSON object that parses for the UI elements; it returns a
\* NodeId only when that reply was parsed.
C16_UnparseableReplyReturnsNull ==
  last.op = "identifyCurrentNode" =>
    /\ (~last.sight[1].capture \/ IdentifiedOn("noJson") \/ IdentifiedOn("badJson")) => ~last.ret
    /\ last.ret => IdentifiedOn("json")

\* identifyCurrentNode returned a NodeId on a reply without any JSON object
C16_NodeIdWithoutJson ==
  IdentifiedOn("noJson") /\ last.sight[1].capture /\ last.ret /\ last.node # None

-----------------------------------------------------------------------------
(* Exceptions of a dispatch (SpecKeys) *)

\* the jth dispatch of the last run was of an action of type t and threw
ThrewAt(j, t) ==
  /\ j \in 1..Len(last.inputs)
  /\ HeldPath.actions[last.inputs[j][1] + 1].data.type = t
  /\ ~last.inputs[j][3]

\* C17: an exception raised while an action is dispatched, those raised inside
\* KeyboardController.typeText, pressKey and pressEnter included, makes
\* executeAction return false, so that executePath sees the action as failed.
C17_ThrowingDispatchFails ==
  last.op = "executePath" =>
    \A j \in 1..Len(last.inputs) : ~last.inputs[j][3] => ~last.inputs[j][2]

\* typeText threw, executeAction returned true and the run passed
C17_TypeThrewRunPassed ==
  /\ last.op = "executePath"
  /\ last.ret
  /\ ThrewAt(1, "type")
  /\ last.inputs[1][2]

-----------------------------------------------------------------------------
(* Properties of the state hash (SpecHash).  SHA-256 is taken to give equal *)
(* hashes to equal representations only.                                   *)

\* C18: hashElements gives the elements in any order the hash it gives them in the
\* order they came in
C18_HashIgnoresOrder == probe.op = "permuted" => probe.otherHash = probe.hash

\* two elements alike but for their width, hashed in both orders, got two hashes
C18_WidthTieKeepsOrder ==
  /\ probe.op = "permuted"
  /\ Len(probe.elements) = 2
  /\ probe.other = <<probe.elements[2], probe.elements[1]>>
  /\ CompareElements(NormalizedElement(probe.elements[1]), NormalizedElement(probe.elements[2])) = 0
  /\ probe.otherHash # probe.hash

\* C19: hashElements gives the same hash when every component of every bounding box
\* changes by less than 10 pixels
C19_HashIgnoresSmallMoves == probe.op = "moved" => probe.otherHash = probe.hash

\* an element moved by one pixel, from x = 9 to x = 10, got another hash
C19_OnePixelChangesHash ==
  /\ probe.op = "moved"
  /\ Len(probe.elements) = 1
  /\ probe.elements[1].position # None
  /\ probe.elements[1].position[1].x = 9
  /\ probe.other[1].position[1] = [ probe.elements[1].position[1] EXCEPT !.x = 10 ]
  /\ probe.otherHash # probe.hash

-----------------------------------------------------------------------------
(* The coordinate guard (SpecClick) *)

\* C20: for a bounding box whose x, y, width and height all lie in [0, 1] and a
\* screen of W x H pixels, clickBBoxCenter clicks a point (cx, cy) with
\* 0 <= cx <= W and 0 <= cy <= H
C20_ClickWithinScreen ==
  (probe.op = "clickBBoxCenter" /\ isNormalized(probe.bbox)) =>
    /\ 0 <= probe.click.x /\ probe.click.x <= probe.screen.width
    /\ 0 <= probe.click.y /\ probe.click.y <= probe.screen.height

\* the bounding box with x = y = width = height = 1 was clicked right of the screen
\* and below it
C20_ClickedOffScreen ==
  /\ probe.op = "clickBBoxCenter"
  /\ probe.bbox = BBox(Parts, Parts, Parts, Parts)
  /\ probe.click.x > probe.screen.width
  /\ probe.click.y > probe.screen.height

-----------------------------------------------------------------------------
(* The graph file and the graph in memory (SpecStore) *)

\* the graph file holds the document of the graph in memory
DiskIsMemory == sg # None /\ disk = FileOf(Serialize(sg[1], heap))

\* C21: load() of a graph file that does not parse does not raise and gives an empty
\* graph, no node and no edge; the next save, whatever operation makes it, leaves in
\* the file the well-formed document of the graph then in memory
C21_GarbledFileLoadsEmpty ==
  /\ (last.op = "load" /\ last.garbled) =>
       (~last.threw /\ last.ret /\ sg # None /\ sg[1].nodes = <<>> /\ sg[1].edges = <<>>)
  /\ (last.garbled /\ last.wrote) => (disk.state = "json" /\ DiskIsMemory)

\* a node was added over a file that did not parse: the file now holds that node alone
C21_SavedOverGarbledFile ==
  /\ last.op = "storage.addNode" /\ last.garbled /\ last.wrote
  /\ disk.state = "json"
  /\ DOMAIN disk.doc.nodes = { nodeIdToKey(last.node[1]) }

MutatingOps ==
  { "storage.addNode", "storage.addPath", "storage.deletePath", "storage.clear",
    "addNode", "executePath", "navigateTo" }

\* the graph file agrees with the graph in memory in nodes, edges and currentNodeId
DiskAgrees ==
  /\ sg # None /\ disk.state = "json"
  /\ disk.doc.nodes = Serialize(sg[1], heap).nodes
  /\ disk.doc.edges = Serialize(sg[1], heap).edges
  /\ disk.doc.currentNodeId = sg[1].currentNodeId

\* C22: when a mutating operation of the storage (addNode, addPath, updatePath,
\* deletePath, clear) or of the Brain (addNode, executePath, navigateTo) returns,
\* having saved, the graph file equals the serialization of the graph in memory in
\* nodes, edges and currentNodeId
C22_DiskEqualsMemoryOnReturn ==
  (last.op \in MutatingOps /\ last.wrote /\ last.wroteAll) => DiskAgrees

\* the Brain's addNode returned a node, its write done, and the file holds another
\* currentNodeId than the graph in memory
C22_CurrentNodeNotOnDisk ==
  /\ last.op = "addNode" /\ last.ret /\ last.wrote /\ last.wroteAll
  /\ sg[1].currentNodeId = last.node
  /\ disk.state = "json"
  /\ disk.doc.nodes = Serialize(sg[1], heap).nodes
  /\ disk.doc.currentNodeId # sg[1].currentNodeId

\* the Path at r is among the Paths the graph in memory keeps under fromNodeId
StoredUnder(r, fromNodeId) ==
  /\ nodeIdToKey(fromNodeId) \in DOMAIN sg[1].edges
  /\ \E i \in 1..Len(sg[1].edges[nodeIdToKey(fromNodeId)]) :
       sg[1].edges[nodeIdToKey(fromNodeId)][i] = r

\* C23: whenever navigateTo returns true, the Path it learned is stored in
\* edges[fromNodeId] with toNodeId the NodeId that identifyCurrentNode returned
\* after the execution, that node is in nodes, and graph.currentNodeId is it
C23_NavigatedPathStored ==
  (last.op = "navigateTo" /\ last.ret) =>
    /\ last.node # None /\ last.from # None /\ sg # None
    /\ \E r \in last.made :
         /\ heap[r] # None
         /\ heap[r][1].fromNodeId = last.from[1]
         /\ heap[r][1].toNodeId = last.node[1]
         /\ StoredUnder(r, last.from[1])
    /\ nodeIdToKey(last.node[1]) \in DOMAIN sg[1].nodes
    /\ sg[1].currentNodeId = last.node

\* navigateTo returned true, having gone from one node to another, and the Path it
\* learned is stored under the node it left and leads to the node it identified
C23_NavigatedToAnotherNode ==
  /\ last.op = "navigateTo" /\ last.ret
  /\ last.from # last.node
  /\ \E r \in last.made :
       heap[r] # None /\ heap[r][1].toNodeId = last.node[1] /\ StoredUnder(r, last.from[1])
  /\ sg[1].currentNodeId = last.node

\* C24: after identifyCurrentNode has returned a NodeId, the nodes of the graph
\* contain it (created on its first identification, visited again on later ones)
C24_IdentifiedNodeIsKnown ==
  (last.op = "identifyCurrentNode" /\ last.ret) =>
    (sg # None /\ nodeIdToKey(last.node[1]) \in DOMAIN sg[1].nodes)

\* an initialized Brain identified a node, the ShadowDOM is of that node, and the
\* nodes of the graph do not contain it
C24_IdentifiedNodeUnknown ==
  /\ last.op = "identifyCurrentNode" /\ last.ret /\ last.node # None
  /\ bg = "shared" /\ sg # None
  /\ shadow # None /\ shadow[1].nodeId = last.node[1]
  /\ nodeIdToKey(last.node[1]) \notin DOMAIN sg[1].nodes

-----------------------------------------------------------------------------
(* The launch_app tool.  execute awaits the hotkey and its own timers; it   *)
(* calls typeText and pressEnter without awaiting them, so the keyboard's   *)
(* promises run beside the timers and settle when the keyboard gets there.  *)

Hotkey(key, modifiers) == [ kind |-> "hotkey", key |-> key, modifiers |-> modifiers ]
Typed(char) == [ kind |-> "char", char |-> char ]
EnterKey == [ kind |-> "key", key |-> "enter" ]

\* what the tool has not started: no call, no promise
NoLaunch ==
  [ op |-> "launch_app", appName |-> None, pc |-> "returned", emitted |-> <<>>, typed |-> 0,
    typing |-> "none", enter |-> "none", result |-> None ]

\* the keyboard events of launch_app(appName) as the tool means them
LaunchSequence(appName) ==
  <<Hotkey("space", <<"command">>)>> \o [ i \in 1..Len(appName) |-> Typed(appName[i]) ]
    \o <<EnterKey>>

\* no call of the tool is running and no promise of the keyboard is pending
LaunchSettled ==
  \/ probe.op = "none"
  \/ probe.op = "launch_app" /\ probe.pc = "returned"
       /\ probe.typing # "running" /\ probe.enter # "pending"

\* LaunchAppTool.execute(input) up to its second timer: validateInput throws on a
\* missing appName, an empty appName is refused, pressKey("space", ["command"]) is
\* awaited (hotkeyOk: it did not throw), then typeText(appName) is called and the
\* 500 ms timer started
execute(input, hotkeyOk) ==
  IF input = None \/ input[1] = <<>> \/ ~hotkeyOk
  THEN [ NoLaunch EXCEPT !.appName = input, !.result = Some(FALSE) ]
  ELSE [ NoLaunch EXCEPT !.appName = input, !.pc = "searching",
                         !.emitted = <<Hotkey("space", <<"command">>)>>,
                         !.typing = "running" ]

\* launch_app is called
LaunchApp(inputs) ==
  \E input \in inputs, hotkeyOk \in BOOLEAN :
    /\ LaunchSettled
    /\ probe' = execute(input, hotkeyOk)
    /\ UNCHANGED <<inputLog, BrainVars, llm, calls>>

\* KeyboardController.typeText: keyboard.type emits the next character
KeyboardTypes ==
  /\ probe.op = "launch_app" /\ probe.typing = "running"
  /\ probe' = [ probe EXCEPT
       !.emitted = Append(@, Typed(probe.appName[1][probe.typed + 1])),
       !.typed = @ + 1,
       !.typing = IF probe.typed + 1 = Len(probe.appName[1]) THEN "done" ELSE "running" ]
  /\ UNCHANGED <<inputLog, BrainVars, llm, calls>>

\* keyboard.type rejects; nothing awaits the promise of typeText
KeyboardTypeRejects ==
  /\ probe.op = "launch_app" /\ probe.typing = "running"
  /\ probe' = [ probe EXCEPT !.typing = "rejected" ]
  /\ UNCHANGED <<inputLog, BrainVars, llm, calls>>

\* the 500 ms timer fires: execute calls pressEnter and starts the 2000 ms timer
SearchTimerFires ==
  /\ probe.op = "launch_app" /\ probe.pc = "searching"
  /\ probe' = [ probe EXCEPT !.pc = "launching", !.enter = "pending" ]
  /\ UNCHANGED <<inputLog, BrainVars, llm, calls>>

\* KeyboardController.pressEnter: the keyboard presses and releases Enter
KeyboardEnters ==
  /\ probe.op = "launch_app" /\ probe.enter = "pending"
  /\ probe' = [ probe EXCEPT !.emitted = Append(@, EnterKey), !.enter = "done" ]
  /\ UNCHANGED <<inputLog, BrainVars, llm, calls>>

\* keyboard.pressKey(Key.Enter) rejects; nothing awaits the promise of pressEnter
KeyboardEnterRejects ==
  /\ probe.op = "launch_app" /\ probe.enter = "pending"
  /\ probe' = [ probe EXCEPT !.enter = "rejected" ]
  /\ UNCHANGED <<inputLog, BrainVars, llm, calls>>

\* the 2000 ms timer fires: execute returns success: true
LaunchTimerFires ==
  /\ probe.op = "launch_app" /\ probe.pc = "launching"
  /\ probe' = [ probe EXCEPT !.pc = "returned", !.result = Some(TRUE) ]
  /\ UNCHANGED <<inputLog, BrainVars, llm, calls>>

(* SpecLaunch: launch_app called again and again, the keyboard at its own pace. *)
MaxName == 3
AppNames == SeqsUpTo({ "a", "b" }, MaxName)
LaunchInputs == { None } \cup { Some(name) : name \in AppNames }

NextLaunch ==
  \/ LaunchApp(LaunchInputs)
  \/ KeyboardTypes
  \/ KeyboardTypeRejects
  \/ SearchTimerFires
  \/ KeyboardEnters
  \/ KeyboardEnterRejects
  \/ LaunchTimerFires

SpecLaunch == Init /\ [][NextLaunch]_vars

\* C25: launch_app emits the hotkey command+space, then every character of appName
\* in order, then Enter, Enter never before the last character, and it returns
\* success = true only after Enter has been emitted
C25_LaunchEmitsInOrder ==
  (probe.op = "launch_app" /\ probe.appName # None) =>
    /\ Len(probe.emitted) <= Len(LaunchSequence(probe.appName[1]))
    /\ probe.emitted = SubSeq(LaunchSequence(probe.appName[1]), 1, Len(probe.emitted))
    /\ probe.result = Some(TRUE) => probe.emitted = LaunchSequence(probe.appName[1])

\* the tool pressed Enter while the keyboard was still typing the name: Enter
\* comes before the last character, and the tool returned success = true
C25_EnterBeforeLastCharacter ==
  /\ probe.op = "launch_app" /\ probe.appName = Some(<<"a", "b">>)
  /\ probe.emitted = <<Hotkey("space", <<"command">>), Typed("a"), EnterKey, Typed("b")>>
  /\ probe.result = Some(TRUE)

-----------------------------------------------------------------------------
(* The Agent's loop.  processRequest sends the history to the LLM, runs the *)
(* tool calls of the answer and sends again, until an answer has no tool    *)
(* call or the iterations are used up.                                      *)

MaxIterationsDefault == 10

\* new Agent(llmManager, toolRegistry, config): config.maxIterations || 10
AgentMaxIterations(config) ==
  IF config = None \/ config[1] = 0 THEN MaxIterationsDefault ELSE config[1]

\* processRequest(input) at the head of its loop
processRequest(config) ==
  [ op |-> "processRequest", config |-> config, maxIterations |-> AgentMaxIterations(config),
    iterations |-> 0, sends |-> 0, pc |-> "loop",
    lastResponse |-> [ message |-> <<>>, toolCalls |-> FALSE, finished |-> FALSE ] ]

\* a loop that runs once more than maxIterations allows
ContinuesOnceMore(p) == p.iterations <= p.maxIterations

\* while (iterations < this.maxIterations)
Continues(p) == p.iterations < p.maxIterations

\* one turn of the loop: iterations++, llmManager.send(tools), then the answer is the
\* last one (no tool call), or its tool calls are executed and their results added
\* to the history; send may throw, and so does a tool result that has neither data
\* nor error
Iterated(p, reply) ==
  IF reply.kind = "throw" \/ (reply.kind = "tools" /\ ~reply.resultsOk)
  THEN [ p EXCEPT !.iterations = @ + 1, !.sends = @ + 1, !.pc = "threw" ]
  ELSE IF reply.kind = "text"
  THEN [ p EXCEPT !.iterations = @ + 1, !.sends = @ + 1, !.pc = "exit",
                  !.lastResponse = [ message |-> reply.content, toolCalls |-> FALSE,
                                     finished |-> TRUE ] ]
  ELSE [ p EXCEPT !.iterations = @ + 1, !.sends = @ + 1,
                  !.lastResponse = [ message |-> reply.content, toolCalls |-> TRUE,
                                     finished |-> FALSE ] ]

MaxReached == <<"[Max iterations reached]">>

\* after the loop: the mark of the used-up iterations, and the return
Left(p) ==
  IF p.iterations >= p.maxIterations
  THEN [ p EXCEPT !.pc = "returned", !.lastResponse.message = @ \o MaxReached,
                  !.lastResponse.finished = TRUE ]
  ELSE [ p EXCEPT !.pc = "returned" ]

\* a caller calls processRequest on an Agent made with config
ProcessRequest(configs) ==
  \E config \in configs :
    /\ probe.op = "none" \/ (probe.op = "processRequest" /\ probe.pc \in { "returned", "threw" })
    /\ probe' = processRequest(config)
    /\ UNCHANGED <<inputLog, BrainVars, llm, calls>>

\* the loop takes a turn, the LLM and the tools answering with reply
AgentIterates(replies) ==
  /\ probe.op = "processRequest" /\ probe.pc = "loop" /\ Continues(probe)
  /\ \E reply \in replies : probe' = Iterated(probe, reply)
  /\ UNCHANGED <<inputLog, BrainVars, llm, calls>>

\* the loop is left, by its condition or by break, and processRequest returns
AgentReturns ==
  /\ probe.op = "processRequest"
  /\ probe.pc = "exit" \/ (probe.pc = "loop" /\ ~Continues(probe))
  /\ probe' = Left(probe)
  /\ UNCHANGED <<inputLog, BrainVars, llm, calls>>

(* SpecAgent: requests one after the other; the LLM and the tools answer    *)
(* every call, with an answer or an error, so a turn that can be taken is.  *)
MaxConfig == 3
AgentConfigs == { None } \cup { Some(n) : n \in 0..MaxConfig }
AgentReplies ==
  { [ kind |-> "throw", content |-> <<>>, resultsOk |-> FALSE ] }
  \cup { [ kind |-> "text", content |-> c, resultsOk |-> TRUE ] : c \in { <<>>, <<"done">> } }
  \cup { [ kind |-> "tools", content |-> <<>>, resultsOk |-> ok ] : ok \in BOOLEAN }

NextAgent ==
  \/ ProcessRequest(AgentConfigs)
  \/ AgentIterates(AgentReplies)
  \/ AgentReturns

SpecAgent ==
  Init /\ [][NextAgent]_vars /\ WF_vars(AgentIterates(AgentReplies)) /\ WF_vars(AgentReturns)

AgentRunning == probe.op = "processRequest" /\ probe.pc \in { "loop", "exit" }
AgentEnded == probe.op = "processRequest" /\ probe.pc \in { "returned", "threw" }

\* C26: processRequest always terminates, by a return or a throw, and it calls
\* LLMManager.send at most maxIterations times, 10 when the config gives none
C26_ProcessRequestTerminates ==
  /\ [](probe.op = "processRequest" =>
         /\ probe.sends <= probe.maxIterations
         /\ probe.config = None => probe.maxIterations = 10)
  /\ (AgentRunning ~> AgentEnded)

\* an Agent made without maxIterations got tool calls in every answer: it sent ten
\* times and returned with the mark of the used-up iterations
C26_TenSendsThenReturn ==
  /\ probe.op = "processRequest" /\ probe.config = None
  /\ probe.pc = "returned" /\ probe.sends = 10 /\ probe.iterations = 10
  /\ probe.lastResponse.toolCalls
  /\ probe.lastResponse.message = MaxReached
  /\ probe.lastResponse.finished

-----------------------------------------------------------------------------
(* SpecDispatch: the Brain, at a node, learns Paths of one action, of every *)
(* type a plan may name, and a caller runs them.                            *)

\* ActionType, the types of the variants of ActionData
ActionTypes == { "click", "type", "hotkey", "wait", "scroll", "spotlight" }

\* the action types the learnNavigationPath prompt lists
OfferedTypes == { "click", "type", "hotkey", "spotlight", "wait" }

DispatchPlans == { <<PlanEntry(t)>> : t \in ActionTypes \cup OfferedTypes \cup { "drag" } }

NextDispatch ==
  \/ Initialize(NoFail)
  \/ BrainAddNode({ HomeId }, NoFail)
  \/ LearnPath(LearnReplies(DispatchPlans))
  \/ ExecutePath(NoOcr, { NoReply }, NoFail)

SpecDispatch == Init /\ [][NextDispatch]_vars

\* the actions that the last executePath dispatched, of the Path the caller holds
DispatchedActions ==
  { heap[held[1]][1].actions[last.inputs[k][1] + 1] : k \in 1..Len(last.inputs) }

\* C27: executeAction has a case for every variant of ActionData and for every type
\* the learnNavigationPath prompt offers: an action of such a type, its target found
\* and its dispatch not throwing, succeeds; only a type outside ActionData is unknown
C27_EveryActionTypeDispatched ==
  (last.op = "executePath" /\ held # None) =>
    \A action \in DispatchedActions :
      action.data.type \in ActionTypes \cup OfferedTypes => executeAction(action, TRUE)

\* a learned Path of one spotlight action was run: the action was dispatched and
\* retried, executeAction knew no such type either time, and executePath returned false
C27_SpotlightUnknown ==
  /\ last.op = "executePath" /\ ~last.ret /\ held # None
  /\ Len(heap[held[1]][1].actions) = 1
  /\ heap[held[1]][1].actions[1].data.type = "spotlight"
  /\ heap[held[1]][1].actions[1].retryOnFailure
  /\ Len(last.inputs) = 2 /\ ~last.inputs[1][2] /\ ~last.inputs[2][2]
  /\ ~executeAction(heap[held[1]][1].actions[1], TRUE)

-----------------------------------------------------------------------------
(* SpecRun: a caller runs Paths of clicks; a click may fail, some are to be *)
(* retried, and the screen may fail to be captured after a click.           *)
NextRun ==
  \/ NewPath({ HomeId },
             SeqsUpTo({ PathAction("click", TRUE), PathAction("click", FALSE) }, MaxActions)
               \ { <<>> },
             { None })
  \/ ExecutePath(NoOcr, { NoReply }, NoFail)

SpecRun == Init /\ [][NextRun]_vars

\* the Path the caller holds, which the last executePath ran
RunPath == heap[held[1]][1]

\* the PathVerifications the last executePath appended to the history of that Path
NewVerifications ==
  SubSeq(RunPath.verificationHistory[1], last.hadHistory + 1,
         Len(RunPath.verificationHistory[1]))

\* the k-th dispatch of the last run was the last try of its action and returned false
FailedForGood(k) ==
  /\ ~last.inputs[k][2]
  /\ \/ ~RunPath.actions[last.inputs[k][1] + 1].retryOnFailure
     \/ (k > 1 /\ last.inputs[k - 1][1] = last.inputs[k][1])

\* a verification of the last run failed: not the record of a failed dispatch
VerificationFailed(v) ==
  ~v.success /\ v.failureReason # Some(<<"Action execution failed">>)

\* C28: executePath dispatches the actions in ascending index without skipping one,
\* and once an action has failed (its retry included) or a verification has failed,
\* no later action is dispatched and executePath returns false
C28_InOrderUntilFailure ==
  (last.op = "executePath" /\ held # None) =>
    /\ Len(RunPath.actions) > 0 => (Len(last.inputs) > 0 /\ last.inputs[1][1] = 0)
    /\ \A k \in 2..Len(last.inputs) :
         \/ last.inputs[k][1] = last.inputs[k - 1][1] + 1
         \/ /\ last.inputs[k][1] = last.inputs[k - 1][1]
            /\ ~last.inputs[k - 1][2]
            /\ k > 2 => last.inputs[k - 2][1] # last.inputs[k][1]
    /\ \A k \in 1..Len(last.inputs) :
         FailedForGood(k) => (k = Len(last.inputs) /\ ~last.ret)
    /\ \A j \in 1..Len(NewVerifications) :
         VerificationFailed(NewVerifications[j]) =>
           /\ j = Len(NewVerifications) /\ ~last.ret
           /\ last.inputs[Len(last.inputs)][1] = NewVerifications[j].actionIndex
    /\ last.ret => /\ Len(last.inputs) > 0 => last.inputs[Len(last.inputs)][1] = Len(RunPath.actions) - 1
                   /\ Len(last.inputs) > 0 => last.inputs[Len(last.inputs)][2]

\* a Path of two clicks was run: the first click succeeded and its verification
\* failed, the second click was not dispatched and executePath returned false
C28_StoppedAtFailedVerification ==
  /\ last.op = "executePath" /\ held # None /\ ~last.ret
  /\ Len(RunPath.actions) = 2
  /\ last.inputs = <<<<0, TRUE, TRUE>>>>
  /\ Len(NewVerifications) = 1 /\ VerificationFailed(NewVerifications[1])

\* verifyActionResult was run for action i in the last run: its PathVerification,
\* which is not the record of a failed dispatch, is in the history
VerifiedInRun(i) ==
  \E j \in 1..Len(NewVerifications) :
    /\ NewVerifications[j].actionIndex = i
    /\ NewVerifications[j].failureReason # Some(<<"Action execution failed">>)

\* C29: in executePath, after every action that executed successfully, on its first
\* attempt or on its retry, the ShadowDOM is rebuilt and verifyActionResult is run
\* for that action before the next action is dispatched or executePath returns true
C29_VerifiedAfterEverySuccess ==
  (last.op = "executePath" /\ held # None) =>
    /\ \A k \in 1..Len(last.inputs) : last.inputs[k][2] => VerifiedInRun(last.inputs[k][1])
    /\ (last.ret /\ Len(RunPath.actions) > 0) => shadow # None

\* a Path of one click to be retried was run: the click failed, its retry succeeded,
\* executePath returned true, and there is no ShadowDOM and no verification of the
\* click, the history holding only the record of the failed first attempt
C29_RetrySucceededUnverified ==
  /\ last.op = "executePath" /\ held # None /\ last.ret
  /\ Len(RunPath.actions) = 1 /\ RunPath.actions[1].retryOnFailure
  /\ last.inputs = <<<<0, FALSE, FALSE>>, <<0, TRUE, TRUE>>>>
  /\ shadow = None
  /\ Len(NewVerifications) = 1
  /\ NewVerifications[1].failureReason = Some(<<"Action execution failed">>)

\* the indexes of the actions the last run dispatched
DispatchedIndexes == { last.inputs[k][1] : k \in 1..Len(last.inputs) }

\* C30: an executePath run appends to verificationHistory exactly one
\* PathVerification per action it dispatched, its actionIndex that action's index,
\* and none for an action it did not reach
C30_OneVerificationPerAction ==
  (last.op = "executePath" /\ held # None) =>
    /\ \A i \in DispatchedIndexes :
         Cardinality({ j \in 1..Len(NewVerifications) : NewVerifications[j].actionIndex = i }) = 1
    /\ \A j \in 1..Len(NewVerifications) : NewVerifications[j].actionIndex \in DispatchedIndexes
    /\ Len(NewVerifications) = Cardinality(DispatchedIndexes)

\* the second run of a Path of two clicks: the first click failed and was retried
\* with success, the second click succeeded; the run appended two PathVerifications
\* to the two of the first run, one of index 0 and one of index 1
C30_TwoActionsTwoVerifications ==
  /\ last.op = "executePath" /\ held # None /\ last.ret
  /\ Len(RunPath.actions) = 2
  /\ last.hadHistory = 2
  /\ last.inputs = <<<<0, FALSE, FALSE>>, <<0, TRUE, TRUE>>, <<1, TRUE, TRUE>>>>
  /\ Len(NewVerifications) = 2
  /\ NewVerifications[1].actionIndex = 0 /\ ~NewVerifications[1].success
  /\ NewVerifications[2].actionIndex = 1 /\ NewVerifications[2].success

-----------------------------------------------------------------------------
\* the plan the vision model reported is one learnPath rejects: no action, or a
\* confidence (0.5 when the reply gives none) below 0.3
PlanRejected(reported) ==
  \/ reported.actions = 0
  \/ (IF reported.confidence = 0 THEN ConfidenceDefaultTenths ELSE reported.confidence)
       < LearnThresholdTenths

\* C31: when learnPath rejects the plan of the vision model (no actions, or a
\* confidence below 0.3), navigateTo returns false, leaves nodes, edges,
\* currentNodeId and the graph file as they were, and dispatches no input action
C31_RejectedPlanChangesNothing ==
  [][(last'.op = "navigateTo" /\ last'.learnCalls = 1 /\ last'.plan # None
        /\ PlanRejected(last'.plan[1]))
     => (~last'.ret /\ last'.inputs = <<>> /\ sg' = sg /\ heap' = heap /\ disk' = disk
         /\ ~last'.wrote)]_vars

\* navigateTo asked the vision model, which planned one action with confidence 0.2:
\* it returned false without a dispatch or a write, the graph knowing its nodes
C31_LowConfidenceRejected ==
  /\ last.op = "navigateTo" /\ ~last.ret
  /\ last.learnCalls = 1 /\ last.plan # None
  /\ last.plan[1].actions = 1 /\ last.plan[1].confidence = 2
  /\ last.inputs = <<>> /\ ~last.wrote
  /\ sg # None /\ sg[1].currentNodeId # None /\ disk.state = "json"

-----------------------------------------------------------------------------
ShadowMissing == Some(<<"ShadowDOM not available for verification">>)

\* the last run ended at a verification that found no ShadowDOM: the verification
\* is the last of the run, it failed, it is of the action dispatched last, which had
\* succeeded, and executePath returned false without throwing
StoppedForMissingShadow ==
  /\ ~last.ret /\ ~last.threw
  /\ Len(NewVerifications) > 0 /\ Len(last.inputs) > 0
  /\ NewVerifications[Len(NewVerifications)].failureReason = ShadowMissing
  /\ ~NewVerifications[Len(NewVerifications)].success
  /\ NewVerifications[Len(NewVerifications)].actionIndex = last.inputs[Len(last.inputs)][1]
  /\ last.inputs[Len(last.inputs)][2]
  /\ shadow = None

\* C32: if the rebuild of the ShadowDOM after action i fails (the ShadowDOM is
\* null), the verification of action i gives a failed PathVerification with a
\* failureReason instead of raising, and executePath stops after action i and
\* returns false
C32_MissingShadowFailsVerification ==
  /\ [][(last'.op = "executePath" /\ held' # None /\ shadow # None /\ shadow' = None)
        => StoppedForMissingShadow']_vars
  /\ [](last.op = "executePath" /\ held # None =>
         \A j \in 1..Len(NewVerifications) :
           NewVerifications[j].failureReason = ShadowMissing =>
             (j = Len(NewVerifications) /\ StoppedForMissingShadow))

\* a Path of two clicks that had run before was run again: the first click succeeded,
\* the screen could not be captured, the verification of the click failed for want
\* of a ShadowDOM, the second click was not dispatched and executePath returned false
C32_RebuildFailedRunStopped ==
  /\ last.op = "executePath" /\ held # None
  /\ Len(RunPath.actions) = 2 /\ last.hadHistory > 0
  /\ last.inputs = <<<<0, TRUE, TRUE>>>>
  /\ StoppedForMissingShadow

-----------------------------------------------------------------------------
-----------------------------------------------------------------------------
(* SpecNavFail: the Brain navigates from a node it knows; the write of        *)
(* addPath or the write of addNode may fail.                                 *)
NextNavFail ==
  \/ Initialize(NoFail)
  \/ BrainAddNode({ HomeId, SpotlightId }, NoFail)
  \/ NavigateTo({"Settings"}, OneClickReplies, NoOcr, Seens({ HomeId }, NoOcr),
                NoFail, { {}, {2}, {3} })

SpecNavFail == Init /\ [][NextNavFail]_vars

\* C34: if navigateTo returns false, the nodes of the graph in memory and its
\* currentNodeId are what they were before the call, also when a storage write
\* fails while the destination node is added
C34_FailedNavigationKeepsNodes ==
  [][(last'.op = "navigateTo" /\ ~last'.ret /\ sg # None /\ sg' # None)
     => (sg'[1].nodes = sg[1].nodes /\ sg'[1].currentNodeId = sg[1].currentNodeId)]_vars

\* navigateTo ran its path, identified a node the graph did not have and returned
\* false because a write failed: the node is in the nodes in memory, not in the file
C34_NodeAddedThenWriteFailed ==
  /\ last.op = "navigateTo" /\ ~last.ret /\ ~last.wroteAll
  /\ last.node # None /\ last.from # None /\ last.node # last.from
  /\ sg # None /\ nodeIdToKey(last.node[1]) \in DOMAIN sg[1].nodes
  /\ sg[1].nodes[nodeIdToKey(last.node[1])].metadata.visitCount = 1
  /\ sg[1].currentNodeId = last.from
  /\ disk.state = "json" /\ nodeIdToKey(last.node[1]) \notin DOMAIN disk.doc.nodes

-----------------------------------------------------------------------------
\* C35: executePath returns true only if every PathVerification it appended during
\* that run has success = true
C35_TrueOnlyIfAllVerified ==
  (last.op = "executePath" /\ held # None /\ last.ret) =>
    \A j \in 1..Len(NewVerifications) : NewVerifications[j].success

\* a Path of two clicks was run: the first click succeeded and was verified, the
\* second failed and succeeded on its retry; executePath returned true and the last
\* PathVerification of the run has success = false
C35_TrueWithFailedVerification ==
  /\ last.op = "executePath" /\ held # None /\ last.ret
  /\ last.inputs = <<<<0, TRUE, TRUE>>, <<1, FALSE, FALSE>>, <<1, TRUE, TRUE>>>>
  /\ Len(NewVerifications) = 2
  /\ NewVerifications[1].success
  /\ ~NewVerifications[2].success /\ NewVerifications[2].actionIndex = 1

-----------------------------------------------------------------------------
\* C36: while graph.currentNodeId is unset, as it is right after initialize on a
\* fresh filesystem and until addNode is called, navigateTo returns false without
\* calling the vision model, dispatching an action or modifying the graph
C36_NoCurrentNodeNoNavigation ==
  /\ []((last.op = "initialize" /\ last.fresh /\ last.ret) =>
          (sg # None /\ sg[1].currentNodeId = None))
  /\ [][(last'.op = "navigateTo" /\ bg = "shared" /\ sg # None /\ sg[1].currentNodeId = None)
        => (~last'.ret /\ last'.learnCalls = 0 /\ last'.inputs = <<>> /\ ~last'.wrote
            /\ sg' = sg /\ heap' = heap /\ disk' = disk)]_vars

\* navigateTo was called on an initialized Brain that had visited no node: it
\* returned false, the vision model not asked, nothing dispatched or written
C36_NavigatedFromNowhere ==
  /\ last.op = "navigateTo" /\ ~last.ret
  /\ bg = "shared" /\ sg # None /\ sg[1].currentNodeId = None /\ last.from = None
  /\ nodeIdToKey(SpotlightId) \in DOMAIN sg[1].nodes
  /\ last.learnCalls = 0 /\ last.inputs = <<>> /\ ~last.wrote

-----------------------------------------------------------------------------
\* C37: whenever identifyCurrentNode returns a NodeId, the ShadowDOM is not null
\* and its nodeId is that NodeId
C37_IdentifiedNodeHasShadow ==
  (last.op = "identifyCurrentNode" /\ last.ret) =>
    (shadow # None /\ shadow[1].nodeId = last.node[1])

\* identifyCurrentNode captured the screen, named the program and returned a NodeId,
\* and the capture of updateShadowDOM failed: there is no ShadowDOM
C37_IdentifiedWithoutShadow ==
  /\ last.op = "identifyCurrentNode" /\ last.ret /\ last.node # None
  /\ last.sight # None /\ last.sight[1].capture
  /\ shadow = None

-----------------------------------------------------------------------------
(* SpecPlan: the Brain, at a node, learns Paths from plans whose entries    *)
(* carry their type in the data or, as the prompt's example does, beside it, *)
(* and a caller runs them.                                                   *)
PlanTypes == { "click", "type", "wait" }
EntryPlans == { <<PlanEntry(t)>> : t \in PlanTypes } \cup { <<ExampleEntry(t)>> : t \in PlanTypes }

NextPlan ==
  \/ Initialize(NoFail)
  \/ BrainAddNode({ HomeId }, NoFail)
  \/ LearnPath(LearnReplies(EntryPlans))
  \/ ExecutePath(NoOcr, { NoReply }, NoFail)

SpecPlan == Init /\ [][NextPlan]_vars

\* C38: for every entry {type: t, data: d, description} of an accepted plan, the
\* Action that learnPath builds is dispatched by executeAction as an action of type
\* t, also when d has no type field of its own
C38_EntryTypeDispatched ==
  (last.op = "learnPath" /\ last.ret /\ held # None) =>
    \A i \in 1..Len(RunPath.actions) :
      /\ RunPath.actions[i].data.type = last.plan[1].types[i]
      /\ executeAction(RunPath.actions[i], TRUE)
           = executeAction(PathAction(last.plan[1].types[i], TRUE), TRUE)

\* learnPath accepted a plan written as the prompt's example, one click whose data
\* has no type: the Action it built has no type, and executeAction, which would
\* dispatch a click, knows no such action and returns false
C38_ExampleEntryUnknown ==
  /\ last.op = "learnPath" /\ last.ret /\ held # None
  /\ last.plan[1].types = <<"click">>
  /\ RunPath.actions[1].data.type = Undefined
  /\ executeAction(PathAction("click", TRUE), TRUE)
  /\ ~executeAction(RunPath.actions[1], TRUE)

-----------------------------------------------------------------------------
\* the message processRequest returned ends with the mark of the used-up iterations
Marked ==
  /\ Len(probe.lastResponse.message) > 0
  /\ probe.lastResponse.message[Len(probe.lastResponse.message)] = MaxReached[1]

\* C39: processRequest appends "[Max iterations reached]" to the message it returns
\* only if the loop ran out of iterations while the last response of the LLM still
\* asked for tool calls; a run whose last allowed iteration ends with a response
\* without tool calls returns the text of that response unmarked
C39_MarkedOnlyWithPendingToolCalls ==
  (probe.op = "processRequest" /\ probe.pc = "returned" /\ Marked) =>
    (probe.iterations >= probe.maxIterations /\ probe.lastResponse.toolCalls)

\* an Agent of one iteration got a text without tool calls on that iteration: the
\* message returned is the text followed by the mark
C39_FinalAnswerMarked ==
  /\ probe.op = "processRequest" /\ probe.pc = "returned"
  /\ probe.maxIterations = 1 /\ probe.sends = 1
  /\ ~probe.lastResponse.toolCalls /\ probe.lastResponse.finished
  /\ probe.lastResponse.message = <<"done">> \o MaxReached

====
